---- MODULE Spec2Model ----
(***************************************************************************)
(* Windsurf account switcher: the key-value store engine (DatabaseHelper)  *)
(* and the account-switch orchestrator (AccountSwitcher.switchAccount).    *)
(*                                                                         *)
(* Texts are TLA+ strings; JavaScript values are tagged records so that a  *)
(* text "123" and the number 123 are different values.                     *)
(***************************************************************************)
EXTENDS Integers, Sequences, FiniteSets, TLC

VARIABLES
    file,         \* ItemTable of state.vscdb: a sequence of rows [key, value]
    lastWritten,  \* per key: the value of the last successful writeToDB, or Unknown
    lastRead,     \* the last readFromDB call and its result, NoCall after a mutation
    dbCall,       \* the last mutating engine call and how it ended
    sqlJsInstance,\* whether the sql.js module has been initialised and cached
    backups,      \* the backup files: path -> table copied
    clock,        \* Date.now()
    pc,           \* position of the switchAccount execution
    account,      \* the target account of the execution in flight
    patchResult,  \* what checkAndApplyPatch returned to the execution in flight
    branch,       \* "try" or "catch": which writeAuthData call is running
    trace,        \* the steps performed so far by the execution in flight
    outcome,      \* the outcome returned by the last finished execution
    timers,       \* reloadWindow timers scheduled and not yet fired
    reloads,      \* reloadWindow commands issued by fired timers
    storage,      \* the side JSON document storage.json
    platform,     \* process.platform
    reset,        \* the resetMachineId execution in flight, step by step
    attempts,     \* switchAccount executions started so far
    tasks,        \* engine calls in flight, each between its load and its overwrite
    panel,        \* the triggers of the user and the switchAccount executions they started
    am,           \* AccountManager: the globalState memento and the secret storage
    injected      \* the last invocation of the live-injection command

vars == <<file, lastWritten, lastRead, dbCall, sqlJsInstance, backups, clock, pc, account,
          patchResult, branch, trace, outcome, timers, reloads, storage, platform, reset,
          attempts, tasks, panel, am, injected>>

dbVars == <<file, lastWritten, lastRead, dbCall, sqlJsInstance, backups, clock>>
switchVars == <<pc, account, patchResult, branch, trace, outcome, timers, reloads,
                storage, platform, reset, attempts>>
sideVars == <<tasks, panel, am, injected>>

(***************************************************************************)
(* JavaScript values                                                       *)
(***************************************************************************)
Null == [t |-> "null"]
Undefined == [t |-> "undefined"]
Bool(b) == [t |-> "bool", v |-> b]
Num(n) == [t |-> "num", v |-> n]
Str(s) == [t |-> "str", v |-> s]
Arr(s) == [t |-> "arr", v |-> s]
Obj(s) == [t |-> "obj", v |-> s]
Prop(k, v) == [k |-> k, v |-> v]
Buffer(b) == [t |-> "Buffer", v |-> b]
Uint8Array(b) == [t |-> "Uint8Array", v |-> b]

CharAt(s, i) == SubSeq(s, i, i)
Digits == "0123456789"
IsDigit(c) == \E d \in 1..10 : CharAt(Digits, d) = c
DigitVal(c) == (CHOOSE d \in 1..10 : CharAt(Digits, d) = c) - 1

RECURSIVE NatText(_)
NatText(n) ==
    IF n < 10 THEN CharAt(Digits, n + 1)
    ELSE NatText(n \div 10) \o CharAt(Digits, (n % 10) + 1)

\* String(n) and JSON.stringify(n) of an integer
NumText(n) == IF n < 0 THEN "-" \o NatText(0 - n) ELSE NatText(n)

\* a string literal written without escaping
EscapeText_Raw(s) == s

RECURSIVE EscapeText(_)
EscapeText(s) ==
    IF s = "" THEN ""
    ELSE LET c == Head(s) IN
         (IF c = "\"" \/ c = "\\" THEN "\\" \o c ELSE c) \o EscapeText(Tail(s))

Quote(s) == "\"" \o EscapeText(s) \o "\""

RECURSIVE JSONstringify(_), StringifyElems(_), StringifyProps(_)
JSONstringify(v) ==
    CASE v.t = "null" -> "null"
      [] v.t = "bool" -> (IF v.v THEN "true" ELSE "false")
      [] v.t = "num"  -> NumText(v.v)
      [] v.t = "str"  -> Quote(v.v)
      [] v.t = "arr"  -> "[" \o StringifyElems(v.v) \o "]"
      [] v.t = "obj"  -> "{" \o StringifyProps(v.v) \o "}"

StringifyElems(s) ==
    IF s = <<>> THEN ""
    ELSE JSONstringify(Head(s))
         \o (IF Len(s) > 1 THEN "," \o StringifyElems(Tail(s)) ELSE "")

StringifyProps(s) ==
    IF s = <<>> THEN ""
    ELSE Quote(Head(s).k) \o ":" \o JSONstringify(Head(s).v)
         \o (IF Len(s) > 1 THEN "," \o StringifyProps(Tail(s)) ELSE "")

(***************************************************************************)
(* JSON.parse: a recursive-descent parser.  A parse step returns           *)
(* [ok, v, i]: whether it succeeded, the value and the next position.      *)
(***************************************************************************)
Fail == [ok |-> FALSE, v |-> Null, i |-> 0]
Done(v, i) == [ok |-> TRUE, v |-> v, i |-> i]

RECURSIVE SkipWs(_, _)
SkipWs(s, i) == IF i <= Len(s) /\ CharAt(s, i) = " " THEN SkipWs(s, i + 1) ELSE i

StartsAt(s, i, w) == i + Len(w) - 1 <= Len(s) /\ SubSeq(s, i, i + Len(w) - 1) = w

RECURSIVE ParseDigits(_, _, _)
ParseDigits(s, i, acc) ==
    IF i <= Len(s) /\ IsDigit(CharAt(s, i))
    THEN ParseDigits(s, i + 1, acc * 10 + DigitVal(CharAt(s, i)))
    ELSE [v |-> acc, i |-> i]

\* the modelled texts hold no fraction and no exponent
ParseNat(s, i) ==
    IF i > Len(s) \/ ~IsDigit(CharAt(s, i)) THEN Fail
    ELSE IF CharAt(s, i) = "0" THEN Done(Num(0), i + 1)
    ELSE LET d == ParseDigits(s, i, 0) IN Done(Num(d.v), d.i)

ParseNumber(s, i) ==
    IF CharAt(s, i) = "-"
    THEN LET r == ParseNat(s, i + 1) IN
         IF r.ok THEN Done(Num(0 - r.v.v), r.i) ELSE Fail
    ELSE ParseNat(s, i)

\* the body of a string literal, from the character after the opening quote
RECURSIVE ParseChars(_, _, _)
ParseChars(s, i, acc) ==
    IF i > Len(s) THEN Fail
    ELSE LET c == CharAt(s, i) IN
         IF c = "\"" THEN Done(Str(acc), i + 1)
         ELSE IF c = "\\"
              THEN IF i + 1 <= Len(s) /\ CharAt(s, i + 1) \in {"\"", "\\", "/"}
                   THEN ParseChars(s, i + 2, acc \o CharAt(s, i + 1))
                   ELSE Fail
              ELSE ParseChars(s, i + 1, acc \o c)

RECURSIVE ParseValue(_, _), ParseElems(_, _, _), ParseMembers(_, _, _)
ParseValue(s, i0) ==
    LET i == SkipWs(s, i0) IN
    IF i > Len(s) THEN Fail
    ELSE LET c == CharAt(s, i) IN
         CASE c = "n" -> (IF StartsAt(s, i, "null") THEN Done(Null, i + 4) ELSE Fail)
           [] c = "t" -> (IF StartsAt(s, i, "true") THEN Done(Bool(TRUE), i + 4) ELSE Fail)
           [] c = "f" -> (IF StartsAt(s, i, "false") THEN Done(Bool(FALSE), i + 5) ELSE Fail)
           [] c = "\"" -> ParseChars(s, i + 1, "")
           [] c = "[" ->
                (LET j == SkipWs(s, i + 1) IN
                 IF j <= Len(s) /\ CharAt(s, j) = "]" THEN Done(Arr(<<>>), j + 1)
                 ELSE ParseElems(s, j, <<>>))
           [] c = "{" ->
                (LET j == SkipWs(s, i + 1) IN
                 IF j <= Len(s) /\ CharAt(s, j) = "}" THEN Done(Obj(<<>>), j + 1)
                 ELSE ParseMembers(s, j, <<>>))
           [] c = "-" \/ IsDigit(c) -> ParseNumber(s, i)
           [] OTHER -> Fail

\* elements of a non-empty array, up to and including the closing bracket
ParseElems(s, i, acc) ==
    LET r == ParseValue(s, i) IN
    IF ~r.ok THEN Fail
    ELSE LET j == SkipWs(s, r.i) IN
         IF j > Len(s) THEN Fail
         ELSE IF CharAt(s, j) = "]" THEN Done(Arr(Append(acc, r.v)), j + 1)
         ELSE IF CharAt(s, j) = "," THEN ParseElems(s, j + 1, Append(acc, r.v))
         ELSE Fail

\* a later member replaces an earlier member of the same name
PutProp(props, k, v) ==
    IF \E n \in 1..Len(props) : props[n].k = k
    THEN [n \in 1..Len(props) |-> IF props[n].k = k THEN Prop(k, v) ELSE props[n]]
    ELSE Append(props, Prop(k, v))

\* members of a non-empty object, up to and including the closing brace
ParseMembers(s, i0, acc) ==
    LET i == SkipWs(s, i0) IN
    IF i > Len(s) \/ CharAt(s, i) # "\"" THEN Fail
    ELSE LET k == ParseChars(s, i + 1, "") IN
         IF ~k.ok THEN Fail
         ELSE LET c == SkipWs(s, k.i) IN
              IF c > Len(s) \/ CharAt(s, c) # ":" THEN Fail
              ELSE LET r == ParseValue(s, c + 1) IN
                   IF ~r.ok THEN Fail
                   ELSE LET j == SkipWs(s, r.i) IN
                        IF j > Len(s) THEN Fail
                        ELSE IF CharAt(s, j) = "}"
                             THEN Done(Obj(PutProp(acc, k.v.v, r.v)), j + 1)
                        ELSE IF CharAt(s, j) = ","
                             THEN ParseMembers(s, j + 1, PutProp(acc, k.v.v, r.v))
                        ELSE Fail

\* JSON.parse(text): ok = FALSE stands for the SyntaxError it throws
JSONparse(s) ==
    LET r == ParseValue(s, 1) IN
    IF r.ok /\ SkipWs(s, r.i) = Len(s) + 1 THEN [ok |-> TRUE, v |-> r.v]
    ELSE [ok |-> FALSE, v |-> Null]

(***************************************************************************)
(* DatabaseHelper: every call loads the whole table, changes it in memory  *)
(* and overwrites the file.  The operators compute one call from the table *)
(* on disk and from what the environment does to the call (io).            *)
(***************************************************************************)
IoOutcomes == {"ok", "initFails", "readFails", "writeFails"}
InitError == "sql.js failed to initialise"
ReadError == "ENOENT: no such file or directory"
WriteError == "EACCES: permission denied"

Row(k, c) == [key |-> k, value |-> c]

RECURSIVE SelectSeq2(_, _)
SelectSeq2(rows, keep) ==
    IF rows = <<>> THEN <<>>
    ELSE (IF Head(rows).key \in keep THEN <<Head(rows)>> ELSE <<>>)
         \o SelectSeq2(Tail(rows), keep)

RowKeys(rows) == {rows[n].key : n \in 1..Len(rows)}

\* an INSERT that keeps the row the key already has
InsertOrReplace_Insert(rows, key, text) == Append(rows, Row(key, Str(text)))

\* INSERT OR REPLACE INTO ItemTable (key, value): the row of the key is replaced
InsertOrReplace(rows, key, text) ==
    Append(SelectSeq2(rows, RowKeys(rows) \ {key}), Row(key, Str(text)))

\* a DELETE that has lost its WHERE clause
DeleteRow_All(rows, key) == <<>>

\* DELETE FROM ItemTable WHERE key = ?
DeleteRow(rows, key) == SelectSeq2(rows, RowKeys(rows) \ {key})

BytesToArray(b) == Arr([n \in 1..Len(b) |-> Num(b[n])])

\* the text stored for a value (writeToDB, "finalValue")
Encode(value) ==
    CASE value.t \in {"Buffer", "Uint8Array"} ->
            JSONstringify(Obj(<<Prop("type", Str("Buffer")),
                                Prop("data", BytesToArray(value.v))>>))
      [] value.t \in {"arr", "obj", "null"} -> JSONstringify(value)
      [] value.t = "str" -> value.v
      [] value.t = "num" -> NumText(value.v)
      [] value.t = "bool" -> (IF value.v THEN "true" ELSE "false")
      [] value.t = "undefined" -> "undefined"

\* the value returned for a stored cell (readFromDB)
Decode(cell) ==
    IF cell.t = "str"
    THEN LET p == JSONparse(cell.v) IN IF p.ok THEN p.v ELSE Str(cell.v)
    ELSE cell

\* initSqlJs: fails only while the module is not cached
initSqlJs(sql, io) == [threw |-> ~sql /\ io = "initFails", sql |-> sql \/ io # "initFails"]

NullValueError(key) == "Cannot write null/undefined value to key: " \o key

\* a call that ends in an exception: nothing is returned, the file is as it was
Thrown(e, loaded, rows, sql) ==
    [threw |-> TRUE, error |-> e, loaded |-> loaded, overwrote |-> FALSE,
     returned |-> Undefined, table |-> rows, sql |-> sql]

\* a call that catches the failure e and returns v
Caught(e, loaded, v, rows, sql) ==
    [threw |-> FALSE, error |-> e, loaded |-> loaded, overwrote |-> FALSE,
     returned |-> v, table |-> rows, sql |-> sql]

\* a call that overwrote the file with rows and returns v
Overwrote(v, rows, sql) ==
    [threw |-> FALSE, error |-> "", loaded |-> TRUE, overwrote |-> TRUE,
     returned |-> v, table |-> rows, sql |-> sql]

\* a write without the null/undefined check
writeToDB_NoNullCheck(rows, sql, key, value, io) ==
    LET SQL == initSqlJs(sql, io) IN
    IF SQL.threw THEN Thrown(InitError, FALSE, rows, SQL.sql)
    ELSE IF io = "readFails" THEN Thrown(ReadError, FALSE, rows, SQL.sql)
    ELSE IF io = "writeFails" THEN Thrown(WriteError, TRUE, rows, SQL.sql)
    ELSE Overwrote(Bool(TRUE), InsertOrReplace(rows, key, Encode(value)), SQL.sql)

\* a write that returns before the overwrite of the file has completed
writeToDB_Unawaited(rows, sql, key, value, io) ==
    LET SQL == initSqlJs(sql, io) IN
    IF SQL.threw THEN Thrown(InitError, FALSE, rows, SQL.sql)
    ELSE IF value.t \in {"null", "undefined"}
         THEN Thrown(NullValueError(key), FALSE, rows, SQL.sql)
    ELSE IF io = "readFails" THEN Thrown(ReadError, FALSE, rows, SQL.sql)
    ELSE IF io = "writeFails" THEN Caught(WriteError, TRUE, Bool(TRUE), rows, SQL.sql)
    ELSE Overwrote(Bool(TRUE), InsertOrReplace(rows, key, Encode(value)), SQL.sql)

writeToDB(rows, sql, key, value, io) ==
    LET SQL == initSqlJs(sql, io) IN
    IF SQL.threw THEN Thrown(InitError, FALSE, rows, SQL.sql)
    ELSE IF value.t \in {"null", "undefined"}
         THEN Thrown(NullValueError(key), FALSE, rows, SQL.sql)
    ELSE IF io = "readFails" THEN Thrown(ReadError, FALSE, rows, SQL.sql)
    ELSE IF io = "writeFails" THEN Thrown(WriteError, TRUE, rows, SQL.sql)
    ELSE Overwrote(Bool(TRUE), InsertOrReplace(rows, key, Encode(value)), SQL.sql)

\* result = the value returned; threw = an error reached the caller
readFromDB(rows, sql, key, io) ==
    LET SQL == initSqlJs(sql, io) IN
    IF SQL.threw
    THEN [threw |-> TRUE, loaded |-> FALSE, result |-> Null, sql |-> SQL.sql]
    ELSE IF io = "readFails"
    THEN [threw |-> FALSE, loaded |-> FALSE, result |-> Null, sql |-> SQL.sql]
    ELSE LET hit == SelectSeq2(rows, {key}) IN
         [threw |-> FALSE, loaded |-> TRUE,
          result |-> IF hit # <<>> THEN Decode(hit[1].value) ELSE Null,
          sql |-> SQL.sql]

\* a delete that reports whether the key was in the table
deleteFromDB_ReportsExistence(rows, sql, key, io) ==
    LET SQL == initSqlJs(sql, io) IN
    IF SQL.threw THEN Thrown(InitError, FALSE, rows, SQL.sql)
    ELSE IF io = "readFails" THEN Caught(ReadError, FALSE, Bool(FALSE), rows, SQL.sql)
    ELSE IF io = "writeFails" THEN Caught(WriteError, TRUE, Bool(FALSE), rows, SQL.sql)
    ELSE Overwrote(Bool(key \in RowKeys(rows)), DeleteRow(rows, key), SQL.sql)

\* the catch block returns false; initSqlJs is awaited before the try block
deleteFromDB(rows, sql, key, io) ==
    LET SQL == initSqlJs(sql, io) IN
    IF SQL.threw THEN Thrown(InitError, FALSE, rows, SQL.sql)
    ELSE IF io = "readFails" THEN Caught(ReadError, FALSE, Bool(FALSE), rows, SQL.sql)
    ELSE IF io = "writeFails" THEN Caught(WriteError, TRUE, Bool(FALSE), rows, SQL.sql)
    ELSE Overwrote(Bool(TRUE), DeleteRow(rows, key), SQL.sql)

\* SQLite LIKE compares ASCII letters without regard to case
UpperCase == "ABCDEFGHIJKLMNOPQRSTUVWXYZ"
LowerCase == "abcdefghijklmnopqrstuvwxyz"
FoldMap ==
    [c \in {CharAt(UpperCase, n) : n \in 1..Len(UpperCase)} |->
        CharAt(LowerCase, CHOOSE n \in 1..Len(UpperCase) : CharAt(UpperCase, n) = c)]
Fold(c) == IF c \in DOMAIN FoldMap THEN FoldMap[c] ELSE c

\* key LIKE pattern, from position i of the pattern and j of the key:
\* % stands for any run of characters, _ for one character
RECURSIVE LikeFrom(_, _, _, _)
LikeFrom(pattern, i, key, j) ==
    IF i > Len(pattern) THEN j > Len(key)
    ELSE IF CharAt(pattern, i) = "%"
    THEN \E k \in j..(Len(key) + 1) : LikeFrom(pattern, i + 1, key, k)
    ELSE /\ j <= Len(key)
         /\ \/ CharAt(pattern, i) = "_"
            \/ Fold(CharAt(pattern, i)) = Fold(CharAt(key, j))
         /\ LikeFrom(pattern, i + 1, key, j + 1)

Like(pattern, key) == LikeFrom(pattern, 1, key, 1)

\* SELECT key FROM ItemTable WHERE key LIKE ?: the keys, in table order
RECURSIVE SelectLike(_, _)
SelectLike(rows, pattern) ==
    IF rows = <<>> THEN <<>>
    ELSE (IF Like(pattern, Head(rows).key) THEN <<Head(rows).key>> ELSE <<>>)
         \o SelectLike(Tail(rows), pattern)

\* the loop over the selected keys: one DELETE and one increment per key
RECURSIVE DeleteEach(_, _, _)
DeleteEach(rows, keys, deletedCount) ==
    IF keys = <<>> THEN [table |-> rows, deletedCount |-> deletedCount]
    ELSE DeleteEach(DeleteRow(rows, Head(keys)), Tail(keys), deletedCount + 1)

\* a bulk delete whose loop stops after the first selected key
deleteByPattern_FirstOnly(rows, sql, pattern, io) ==
    LET SQL == initSqlJs(sql, io) IN
    IF SQL.threw THEN Thrown(InitError, FALSE, rows, SQL.sql)
    ELSE IF io = "readFails" THEN Caught(ReadError, FALSE, Num(0), rows, SQL.sql)
    ELSE LET keys == SelectLike(rows, pattern)
             d == DeleteEach(rows, SubSeq(keys, 1, IF keys = <<>> THEN 0 ELSE 1), 0) IN
         IF io = "writeFails" THEN Caught(WriteError, TRUE, Num(0), rows, SQL.sql)
         ELSE Overwrote(Num(d.deletedCount), d.table, SQL.sql)

\* the catch block returns 0
deleteByPattern(rows, sql, pattern, io) ==
    LET SQL == initSqlJs(sql, io) IN
    IF SQL.threw THEN Thrown(InitError, FALSE, rows, SQL.sql)
    ELSE IF io = "readFails" THEN Caught(ReadError, FALSE, Num(0), rows, SQL.sql)
    ELSE LET d == DeleteEach(rows, SelectLike(rows, pattern), 0) IN
         IF io = "writeFails" THEN Caught(WriteError, TRUE, Num(0), rows, SQL.sql)
         ELSE Overwrote(Num(d.deletedCount), d.table, SQL.sql)

\* PathDetector.getDBPath()
DbPath == "/home/u/.config/Windsurf/User/globalStorage/state.vscdb"

CopyOutcomes == {"ok", "copyFails"}

\* `${dbPath}.backup.${Date.now()}`
BackupPath(now) == DbPath \o ".backup." \o NumText(now)

\* fs.copyFile(src, dest) on the files: dest holds what src holds
CopyFile(files, table, dest) ==
    [p \in (DOMAIN files) \cup {dest} |-> IF p = dest THEN table ELSE files[p]]

\* a backup that moves the file instead of copying it
backupDB_Move(rows, files, now, io) ==
    IF io = "copyFails" THEN [returned |-> Null, table |-> rows, files |-> files]
    ELSE [returned |-> Str(BackupPath(now)), table |-> <<>>,
          files |-> CopyFile(files, rows, BackupPath(now))]

\* files are the backup files there are; the catch block returns null
backupDB(rows, files, now, io) ==
    IF io = "copyFails" THEN [returned |-> Null, table |-> rows, files |-> files]
    ELSE [returned |-> Str(BackupPath(now)), table |-> rows,
          files |-> CopyFile(files, rows, BackupPath(now))]

(***************************************************************************)
(* Bounded inputs of the engine                                            *)
(***************************************************************************)
MaxElems == 2      \* longest array and largest object written
MaxBytes == 2      \* longest byte sequence written

SeqsUpTo(S, n) == UNION {[1..m -> S] : m \in 0..n}

ElemAtoms == {Null, Num(12), Str("a\"")}
MemberKeys == {"a", "b"}
MemberValues == {Str("1"), Arr(<<Bool(TRUE), Obj(<<>>)>>)}
Members == {Prop(k, v) : k \in MemberKeys, v \in MemberValues}
DistinctKeys(s) == \A m, n \in 1..Len(s) : m # n => s[m].k # s[n].k

ArrayValues == {Arr(s) : s \in SeqsUpTo(ElemAtoms, MaxElems)}
ObjectValues == {Obj(s) : s \in {m \in SeqsUpTo(Members, MaxElems) : DistinctKeys(m)}}
NestedValues ==
    {Arr(<<Arr(<<>>), Obj(<<Prop("a", Null)>>)>>),
     Obj(<<Prop("type", Str("Buffer")), Prop("data", Arr(<<Num(1)>>))>>),
     Obj(<<Prop("k\\", Obj(<<Prop("b", Arr(<<Num(-7), Bool(FALSE)>>))>>))>>)}
StructuredValues == ArrayValues \cup ObjectValues \cup NestedValues

ByteRange == {0, 255}
ByteValues == {Buffer(b) : b \in SeqsUpTo(ByteRange, MaxBytes)}
                  \cup {Uint8Array(b) : b \in SeqsUpTo(ByteRange, MaxBytes)}

TextValues ==
    {Str(t) : t \in {"", "a", "123", "-5", "true", "null", "{}", "[1]", "\"a\"",
                     " 1", "01", "{\"a\":1}", "nul", "a\"b"}}
ScalarValues == {Num(0), Num(12), Num(-3), Bool(TRUE), Bool(FALSE)}

DbValues == StructuredValues \cup ByteValues \cup TextValues \cup ScalarValues
                \cup {Null, Undefined}

TestKey == "foo.a"
HostKey == "bar.c"
SwitchKeys == {"windsurfAuthStatus", "codeium.windsurf", "codeium.windsurf-windsurf_auth"}
Keys == {TestKey, HostKey} \cup SwitchKeys

\* calls made on the engine: every value without a failure of the
\* environment, and a few values with each failure
FewValues == {Null, Str("123")}
WriteCalls ==
    {<<TestKey, v, "ok">> : v \in DbValues}
        \cup {<<TestKey, v, io>> : v \in FewValues, io \in IoOutcomes}

InitialTables ==
    {<<>>,
     <<Row(HostKey, Str("{\"v\":1}"))>>,
     <<Row(TestKey, Uint8Array(<<1>>)), Row(HostKey, Str("x"))>>}

Unknown == [t |-> "unknown"]
NoRead == [called |-> FALSE, key |-> "", loaded |-> FALSE, threw |-> FALSE, result |-> Null]
NoCall == [op |-> "none", key |-> "", valueType |-> "", threw |-> FALSE, error |-> "",
           loaded |-> FALSE, overwrote |-> FALSE, returned |-> Undefined, removed |-> 0]

\* the record of a call made on the table rows; removed counts the rows of
\* the table before the call whose key has no row after it
Call(op, key, valueType, rows, r) ==
    [op |-> op, key |-> key, valueType |-> valueType, threw |-> r.threw,
     error |-> r.error, loaded |-> r.loaded, overwrote |-> r.overwrote,
     returned |-> r.returned,
     removed |-> Len(rows) - Len(SelectSeq2(rows, RowKeys(r.table)))]

(***************************************************************************)
(* Engine calls as steps                                                   *)
(***************************************************************************)
DoWrite(key, value, io) ==
    \E r \in {writeToDB(file, sqlJsInstance, key, value, io)} :
    /\ file' = r.table
    /\ sqlJsInstance' = r.sql
    /\ dbCall' = Call("writeToDB", key, value.t, file, r)
    /\ lastWritten' = IF r.overwrote THEN [lastWritten EXCEPT ![key] = value]
                      ELSE lastWritten
    /\ lastRead' = NoRead

WriteToDB ==
    /\ \E c \in WriteCalls : DoWrite(c[1], c[2], c[3])
    /\ UNCHANGED <<backups, clock>>
    /\ UNCHANGED switchVars
    /\ UNCHANGED sideVars

ReadFromDB ==
    /\ \E key \in {TestKey, HostKey}, io \in IoOutcomes :
        \E r \in {readFromDB(file, sqlJsInstance, key, io)} :
        /\ lastRead' = [called |-> TRUE, key |-> key, loaded |-> r.loaded,
                        threw |-> r.threw, result |-> r.result]
        /\ sqlJsInstance' = r.sql
    /\ UNCHANGED <<file, lastWritten, dbCall, backups, clock>>
    /\ UNCHANGED switchVars
    /\ UNCHANGED sideVars

DeleteFromDB ==
    /\ \E key \in {TestKey, HostKey}, io \in IoOutcomes :
        \E r \in {deleteFromDB(file, sqlJsInstance, key, io)} :
        /\ file' = r.table
        /\ sqlJsInstance' = r.sql
        /\ dbCall' = Call("deleteFromDB", key, "", file, r)
        /\ lastWritten' = IF r.overwrote THEN [lastWritten EXCEPT ![key] = Unknown]
                          ELSE lastWritten
        /\ lastRead' = NoRead
    /\ UNCHANGED <<backups, clock>>
    /\ UNCHANGED switchVars
    /\ UNCHANGED sideVars

\* tables and patterns of the bulk delete
PatternKeys == <<"foo.a", "foo.b", "bar.c", "FOO.d", "fooxa">>
Patterns == {"foo.%", "foo._", "%", "bar.c", "f%a", "Foo__", "baz.%"}

RECURSIVE RowsOf(_, _)
RowsOf(keys, keep) ==
    IF keys = <<>> THEN <<>>
    ELSE (IF Head(keys) \in keep THEN <<Row(Head(keys), Str("v:" \o Head(keys)))>> ELSE <<>>)
         \o RowsOf(Tail(keys), keep)

PatternTables ==
    {RowsOf(PatternKeys, keep) : keep \in SUBSET {PatternKeys[n] : n \in 1..Len(PatternKeys)}}

MaxClock == 1      \* the last value of Date.now()

DeleteByPattern ==
    /\ \E pattern \in Patterns, io \in IoOutcomes :
        \E r \in {deleteByPattern(file, sqlJsInstance, pattern, io)} :
        /\ file' = r.table
        /\ sqlJsInstance' = r.sql
        /\ dbCall' = Call("deleteByPattern", pattern, "", file, r)
        /\ lastWritten' = [k \in DOMAIN lastWritten |->
                              IF k \in RowKeys(file) \ RowKeys(r.table) THEN Unknown
                              ELSE lastWritten[k]]
        /\ lastRead' = NoRead
    /\ UNCHANGED <<backups, clock>>
    /\ UNCHANGED switchVars
    /\ UNCHANGED sideVars

\* DatabaseHelper.deleteFromDB on the table of the maintenance calls
DeleteBeforeBackup ==
    /\ \E key \in RowKeys(file) :
        \E r \in {deleteFromDB(file, sqlJsInstance, key, "ok")} :
        /\ file' = r.table
        /\ sqlJsInstance' = r.sql
        /\ dbCall' = Call("deleteFromDB", key, "", file, r)
    /\ UNCHANGED <<lastWritten, lastRead, backups, clock>>
    /\ UNCHANGED switchVars
    /\ UNCHANGED sideVars

BackupDB ==
    /\ \E io \in CopyOutcomes :
        \E r \in {backupDB(file, backups, clock, io)} :
        /\ file' = r.table
        /\ backups' = r.files
        /\ dbCall' = [NoCall EXCEPT !.op = "backupDB", !.returned = r.returned,
                                    !.overwrote = (r.table # file)]
    /\ UNCHANGED <<lastWritten, lastRead, sqlJsInstance, clock>>
    /\ UNCHANGED switchVars
    /\ UNCHANGED sideVars

\* time passes
Tick ==
    /\ clock < MaxClock
    /\ clock' = clock + 1
    /\ UNCHANGED <<file, lastWritten, lastRead, dbCall, sqlJsInstance, backups>>
    /\ UNCHANGED switchVars
    /\ UNCHANGED sideVars

(***************************************************************************)
(* MachineIdResetter                                                       *)
(***************************************************************************)
Absent == [t |-> "absent"]          \* storage.json does not exist or cannot be read
Unparsable == [t |-> "unparsable"]  \* storage.json is not JSON text

maxRetries == 3

\* no resetMachineId execution in flight
NoReset ==
    [pc |-> "idle", n |-> 0, i |-> 0, ids |-> "", before |-> Absent,
     storageData |-> Absent, lastError |-> "", writes |-> <<>>, waits |-> <<>>,
     threw |-> FALSE, error |-> ""]

\* generateMachineIds: g numbers the generation, each call draws a fresh one
generateMachineIds(g) ==
    [machineId |-> "sha256-" \o g, macMachineId |-> "sha512-" \o g,
     sqmId |-> "{UUID-" \o g \o "}", devDeviceId |-> "uuid-dev-" \o g,
     serviceMachineId |-> "uuid-svc-" \o g]

\* a document that is replaced by an object holding the one member
SetProp_Fresh(doc, k, v) == Obj(<<Prop(k, Str(v))>>)

\* storageData[k] = v on a parsed object
SetProp(doc, k, v) == Obj(PutProp(doc.v, k, Str(v)))

\* the document the call starts from: the parsed content of storage.json,
\* or {} when the file cannot be read or is not JSON text
startDocument(content) ==
    IF content.t \in {"absent", "unparsable"} THEN Obj(<<>>) ELSE content

TypeErrorMessage == "Cannot set properties of null (setting 'telemetry.machineId')"

\* the four assignments.  On an object they set members; on an array they
\* set properties that JSON.stringify leaves out; on null (and on a number,
\* string or boolean, the module being strict code) the first one throws
assignIds(storageData, ids, plat) ==
    IF storageData.t = "obj"
    THEN LET d1 == SetProp(storageData, "telemetry.machineId", ids.machineId)
             d2 == SetProp(d1, "telemetry.sqmId", ids.sqmId)
             d3 == SetProp(d2, "telemetry.devDeviceId", ids.devDeviceId)
         IN [threw |-> FALSE,
             data |-> IF plat = "darwin"
                      THEN SetProp(d3, "telemetry.macMachineId", ids.macMachineId)
                      ELSE d3]
    ELSE [threw |-> storageData.t # "arr", data |-> storageData]

\* resetMachineId with the first `failures` writes of storage.json failing
resetMachineId(doc, ids, plat, failures) ==
    LET a == assignIds(startDocument(doc), ids, plat) IN
    IF a.threw THEN [threw |-> TRUE, writes |-> 0, doc |-> doc, ids |-> ids]
    ELSE IF failures >= maxRetries
    THEN [threw |-> TRUE, writes |-> maxRetries, doc |-> doc, ids |-> ids]
    ELSE [threw |-> FALSE, writes |-> failures + 1, doc |-> a.data, ids |-> ids]

(***************************************************************************)
(* resetMachineId step by step: the read, each write attempt, each wait    *)
(***************************************************************************)
MaxResets == 2     \* resetMachineId executions in one behaviour

baseDelay == 500   \* milliseconds

\* the wait before the write of loop index i > 0
retryDelay(i) == baseDelay * (i + 1)

WriteFailures == {"EBUSY: resource busy or locked", "EACCES: permission denied"}
WriteOutcomes == {"ok"} \cup WriteFailures

\* the text that leads the message of line 93, in English
ResetPrefix == "resetting the machine ID failed: "

\* an error that leaves resetMachineId without the prefix
Surfaced_Bare(message) == message

\* the outer catch: a new Error whose message is the prefix and the message caught
Surfaced(message) == ResetPrefix \o message

\* fs.writeFile(storagePath, JSON.stringify(storageData, null, 2)), as a later
\* JSON.parse of the file reads it
Written(storageData) == JSONparse(JSONstringify(storageData)).v

\* a loop that goes on after a write that succeeded
afterAttempt_NoBreak(i, o) ==
    IF i + 1 < maxRetries THEN "wait"
    ELSE IF o = "ok" THEN "return" ELSE "throw"

\* where the loop goes after the write of index i: break, next round, or out
afterAttempt(i, o) ==
    IF o = "ok" THEN "return"
    ELSE IF i + 1 < maxRetries THEN "wait" ELSE "throw"

ResetStart ==
    /\ reset.pc \in {"idle", "done"}
    /\ reset.n < MaxResets
    /\ reset' = [NoReset EXCEPT !.pc = "read", !.n = reset.n + 1,
                                !.ids = generateMachineIds(NumText(reset.n + 1))]
    /\ UNCHANGED <<pc, account, patchResult, branch, trace, outcome, timers, reloads,
                   storage, platform, attempts>>
    /\ UNCHANGED dbVars
    /\ UNCHANGED sideVars

\* lines 50-66: read, parse, assign
ResetRead ==
    /\ reset.pc = "read"
    /\ \E readable \in BOOLEAN :
        \E content \in {IF readable THEN storage ELSE Absent} :
        \E a \in {assignIds(startDocument(content), reset.ids, platform)} :
        reset' = IF a.threw
                 THEN [reset EXCEPT !.pc = "done", !.before = content, !.threw = TRUE,
                                    !.error = Surfaced(TypeErrorMessage)]
                 ELSE [reset EXCEPT !.pc = "write", !.before = content,
                                    !.storageData = a.data]
    /\ UNCHANGED <<pc, account, patchResult, branch, trace, outcome, timers, reloads,
                   storage, platform, attempts>>
    /\ UNCHANGED dbVars
    /\ UNCHANGED sideVars

\* lines 74-76: the timer of a retry
ResetWait ==
    /\ reset.pc = "wait"
    /\ reset' = [reset EXCEPT !.pc = "write",
                              !.waits = Append(reset.waits, retryDelay(reset.i))]
    /\ UNCHANGED <<pc, account, patchResult, branch, trace, outcome, timers, reloads,
                   storage, platform, attempts>>
    /\ UNCHANGED dbVars
    /\ UNCHANGED sideVars

\* lines 77-89: one write attempt that ends as o, and what the loop does next
WriteAttempt(o) ==
    /\ reset.pc = "write"
    /\ \E to \in {afterAttempt(reset.i, o)} :
        /\ storage' = IF o = "ok" THEN Written(reset.storageData) ELSE storage
        /\ reset' = [reset EXCEPT
                        !.writes = Append(reset.writes, o),
                        !.lastError = IF o = "ok" THEN "" ELSE o,
                        !.i = IF to = "wait" THEN reset.i + 1 ELSE reset.i,
                        !.pc = IF to = "wait" THEN "wait" ELSE "done",
                        !.threw = (to = "throw"),
                        !.error = IF to = "throw" THEN Surfaced(o) ELSE ""]
    /\ UNCHANGED <<pc, account, patchResult, branch, trace, outcome, timers, reloads,
                   platform, attempts>>
    /\ UNCHANGED dbVars
    /\ UNCHANGED sideVars

ResetWrite == \E o \in WriteOutcomes : WriteAttempt(o)

(***************************************************************************)
(* AccountSwitcher.switchAccount                                           *)
(***************************************************************************)
MaxAttempts == 1   \* switchAccount executions in one behaviour

DefaultServerUrl == "https://server.self-serve.windsurf.com"
RestartMessage == "patch applied, restarting"

Accounts ==
    {[id |-> "id-1", email |-> "ann@x.io", name |-> "Ann", apiKey |-> "sk-ann",
      apiServerUrl |-> "https://eu.windsurf.com", planName |-> "Team"],
     [id |-> "id-2", email |-> "bob@x.io", name |-> "Bob", apiKey |-> "sk-bob",
      apiServerUrl |-> "", planName |-> ""]}

\* uuidv4(): a value never drawn before, named by the place of the call in
\* the behaviour (execution, block, record)
uuidv4(attempt, b, n) == "uuid-" \o NumText(attempt) \o "-" \o b \o "-" \o NumText(n)

\* checkAndApplyPatch() -> { needsRestart, error? }; error "" is no error
PatchResults == [needsRestart : BOOLEAN, error : {"", "extension.js is not writable"}]
NoPatch == [called |-> FALSE, threw |-> FALSE, needsRestart |-> FALSE, error |-> ""]
\* checkAndApplyPatch() threw instead of returning
PatchThrew == [called |-> TRUE, threw |-> TRUE, needsRestart |-> FALSE, error |-> ""]
PatchError == "EPERM: operation not permitted"

\* a SwitchOutcome: fields names the fields the returned object has
NoOutcome == [success |-> FALSE, needsRestart |-> FALSE, error |-> "", fields |-> {}]
Restart == [success |-> FALSE, needsRestart |-> TRUE, error |-> RestartMessage,
            fields |-> {"success", "needsRestart", "error"}]
Failure(e) == [success |-> FALSE, needsRestart |-> FALSE, error |-> e,
               fields |-> {"success", "error"}]
Success == [success |-> TRUE, needsRestart |-> FALSE, error |-> "", fields |-> {"success"}]

\* the three records of writeAuthData, in the order they are written
AuthKeys == <<"windsurfAuthStatus", "codeium.windsurf", "codeium.windsurf-windsurf_auth">>

\* an auth-status record that carries the email as the name
authStatus_EmailAsName(a, teamId) ==
    Obj(<<Prop("name", Str(a.email)), Prop("apiKey", Str(a.apiKey)),
          Prop("email", Str(a.email)), Prop("teamId", Str(teamId)),
          Prop("planName", Str(IF a.planName # "" THEN a.planName ELSE "Pro"))>>)

authStatus(a, teamId) ==
    Obj(<<Prop("name", Str(a.name)), Prop("apiKey", Str(a.apiKey)),
          Prop("email", Str(a.email)), Prop("teamId", Str(teamId)),
          Prop("planName", Str(IF a.planName # "" THEN a.planName ELSE "Pro"))>>)

codeiumConfig(a, installationId) ==
    Obj(<<Prop("codeium.installationId", Str(installationId)),
          Prop("codeium.apiKey", Str(a.apiKey)),
          Prop("apiServerUrl",
               Str(IF a.apiServerUrl # "" THEN a.apiServerUrl ELSE DefaultServerUrl)),
          Prop("codeium.hasOneTimeUpdatedUnspecifiedMode", Bool(TRUE))>>)

\* the value of the n-th record of writeAuthData
AuthRecord(n, a, uuid) ==
    CASE n = 1 -> authStatus(a, uuid)
      [] n = 2 -> codeiumConfig(a, uuid)
      [] n = 3 -> Str(a.name)

\* a patch check after which the logout is left out
afterPatchCheck_SkipLogout(res) ==
    IF res.needsRestart THEN [to |-> "return", outcome |-> Restart, reload |-> TRUE]
    ELSE IF res.error # ""
    THEN [to |-> "return", outcome |-> Failure(res.error), reload |-> FALSE]
    ELSE [to |-> "resetMachineId", outcome |-> NoOutcome, reload |-> FALSE]

\* a patch check that does not look at the error
afterPatchCheck_IgnoreError(res) ==
    IF res.needsRestart THEN [to |-> "return", outcome |-> Restart, reload |-> TRUE]
    ELSE [to |-> "logout", outcome |-> NoOutcome, reload |-> FALSE]

\* a patch check that looks at the error before needsRestart
afterPatchCheck_ErrorFirst(res) ==
    IF res.error # ""
    THEN [to |-> "return", outcome |-> Failure(res.error), reload |-> FALSE]
    ELSE IF res.needsRestart
    THEN [to |-> "return", outcome |-> Restart, reload |-> TRUE]
    ELSE [to |-> "logout", outcome |-> NoOutcome, reload |-> FALSE]

\* what switchAccount does with the patch result: to = where it continues,
\* reload = whether it schedules the reloadWindow timer
afterPatchCheck(res) ==
    IF res.needsRestart THEN [to |-> "return", outcome |-> Restart, reload |-> TRUE]
    ELSE IF res.error # ""
    THEN [to |-> "return", outcome |-> Failure(res.error), reload |-> FALSE]
    ELSE [to |-> "logout", outcome |-> NoOutcome, reload |-> FALSE]

\* the logout command returned or threw
afterLogout(threw) == [to |-> "resetMachineId", outcome |-> NoOutcome]

\* an identity reset whose error reaches the outer catch
afterReset_Propagates(threw, e) ==
    IF threw THEN [to |-> "return", outcome |-> Failure(e)]
    ELSE [to |-> "inject", outcome |-> NoOutcome]

\* resetMachineId returned or threw e
afterReset(threw, e) == [to |-> "inject", outcome |-> NoOutcome]

\* a live injection without the fallback
afterInject_NoFallback(threw, e) ==
    IF threw THEN [to |-> "return", branch |-> "try", outcome |-> Failure(e)]
    ELSE [to |-> "write", branch |-> "try", outcome |-> NoOutcome]

\* the live-injection command returned (writeAuthData in the try block) or
\* threw e (writeAuthData in the catch block)
afterInject(threw, e) ==
    [to |-> "write", branch |-> IF threw THEN "catch" ELSE "try", outcome |-> NoOutcome]

\* a fallback that schedules the reload as soon as its first record is written
afterWrite_EarlyReload(b, n, threw, e) ==
    IF threw
    THEN IF b = "try"
         THEN [to |-> "write", n |-> 1, branch |-> "catch", outcome |-> NoOutcome,
               reload |-> FALSE]
         ELSE [to |-> "return", n |-> n, branch |-> b, outcome |-> Failure(e),
               reload |-> FALSE]
    ELSE IF n < Len(AuthKeys)
    THEN [to |-> "write", n |-> n + 1, branch |-> b, outcome |-> NoOutcome,
          reload |-> b = "catch" /\ n = 1]
    ELSE [to |-> "return", n |-> n, branch |-> b, outcome |-> Success,
          reload |-> FALSE]

\* a fallback that goes on to the next record after a write that threw
afterWrite_SkipFailed(b, n, threw, e) ==
    IF threw /\ b = "try"
    THEN [to |-> "write", n |-> 1, branch |-> "catch", outcome |-> NoOutcome,
          reload |-> FALSE]
    ELSE IF n < Len(AuthKeys)
    THEN [to |-> "write", n |-> n + 1, branch |-> b, outcome |-> NoOutcome,
          reload |-> FALSE]
    ELSE IF threw
    THEN [to |-> "return", n |-> n, branch |-> b, outcome |-> Failure(e),
          reload |-> FALSE]
    ELSE [to |-> "return", n |-> n, branch |-> b, outcome |-> Success,
          reload |-> b = "catch"]

\* a fallback write whose error is swallowed
afterWrite_Swallow(b, n, threw, e) ==
    IF threw /\ b = "try"
    THEN [to |-> "write", n |-> 1, branch |-> "catch", outcome |-> NoOutcome,
          reload |-> FALSE]
    ELSE IF n < 3
    THEN [to |-> "write", n |-> n + 1, branch |-> b, outcome |-> NoOutcome,
          reload |-> FALSE]
    ELSE [to |-> "return", n |-> n, branch |-> b, outcome |-> Success,
          reload |-> b = "catch"]

\* the n-th writeToDB of writeAuthData, called in block b, returned or threw e
afterWrite(b, n, threw, e) ==
    IF threw
    THEN IF b = "try"
         THEN [to |-> "write", n |-> 1, branch |-> "catch", outcome |-> NoOutcome,
               reload |-> FALSE]
         ELSE [to |-> "return", n |-> n, branch |-> b, outcome |-> Failure(e),
               reload |-> FALSE]
    ELSE IF n < Len(AuthKeys)
    THEN [to |-> "write", n |-> n + 1, branch |-> b, outcome |-> NoOutcome,
          reload |-> FALSE]
    ELSE [to |-> "return", n |-> n, branch |-> b, outcome |-> Success,
          reload |-> b = "catch"]

\* an outer catch block that throws the error again
outerCatch_Rethrow(e) == [to |-> "thrown", outcome |-> NoOutcome, reload |-> FALSE]

\* the outer catch block: an error e that reaches it becomes the outcome
outerCatch(e) == [to |-> "return", outcome |-> Failure(e), reload |-> FALSE]

PcOfWrite(n) == "write" \o NumText(n)

\* the argument of windsurf.provideAuthTokenToAuthProviderWithShit
injectArgs(a) ==
    [apiKey |-> a.apiKey, name |-> a.email,
     apiServerUrl |-> IF a.apiServerUrl # "" THEN a.apiServerUrl ELSE DefaultServerUrl]

NoInjection == [called |-> FALSE, args |-> [apiKey |-> "", name |-> "", apiServerUrl |-> ""]]
Invoked(args) == [called |-> TRUE, args |-> args]

\* getCurrentAccount(): the auth-status record as readFromDB returns it
getCurrentAccount(rows, sql, io) == readFromDB(rows, sql, AuthKeys[1], io).result

\* the account of an earlier switch and the table that switch left behind
PreviousAccount ==
    [id |-> "id-0", email |-> "old@x.io", name |-> "Old", apiKey |-> "sk-old",
     apiServerUrl |-> "", planName |-> "Pro"]

SwitchTables ==
    {<<>>,
     <<Row(AuthKeys[1], Str(Encode(authStatus(PreviousAccount, "uuid-0-try-1")))),
       Row(HostKey, Str("x")),
       Row(AuthKeys[2], Str(Encode(codeiumConfig(PreviousAccount, "uuid-0-try-2")))),
       Row(AuthKeys[3], Str(PreviousAccount.name))>>}
ResetError == "reset of the machine id failed"
InjectError == "command 'windsurf.provideAuthTokenToAuthProviderWithShit' not found"

Log(e) == Append(trace, e)
Has(e) == \E n \in 1..Len(trace) : trace[n] = e
Count(e) == Cardinality({n \in 1..Len(trace) : trace[n] = e})
Mark(threw) == IF threw THEN "throw" ELSE "ok"

SwitchAccount ==
    /\ pc = "idle"
    /\ attempts < MaxAttempts
    /\ \E a \in Accounts : account' = a
    /\ pc' = "patchCheck"
    /\ attempts' = attempts + 1
    /\ patchResult' = NoPatch
    /\ branch' = "try"
    /\ trace' = <<>>
    /\ outcome' = NoOutcome
    /\ UNCHANGED <<timers, reloads, storage, platform, reset>>
    /\ UNCHANGED dbVars
    /\ UNCHANGED sideVars

PatchCheck ==
    /\ pc = "patchCheck"
    /\ \E res \in PatchResults, threw \in BOOLEAN :
        LET d == IF threw THEN outerCatch(PatchError) ELSE afterPatchCheck(res) IN
        /\ patchResult' = IF threw THEN PatchThrew
                           ELSE [called |-> TRUE, threw |-> FALSE,
                                 needsRestart |-> res.needsRestart, error |-> res.error]
        /\ pc' = IF d.to = "return" THEN "idle" ELSE d.to
        /\ outcome' = d.outcome
        /\ timers' = IF d.reload THEN timers + 1 ELSE timers
        /\ trace' = IF threw THEN <<"patch:throw">>
                     ELSE IF d.reload THEN <<"patch", "reload">> ELSE <<"patch">>
    /\ UNCHANGED <<account, branch, reloads, storage, platform, reset, attempts>>
    /\ UNCHANGED dbVars
    /\ UNCHANGED sideVars

Logout ==
    /\ pc = "logout"
    /\ \E threw \in BOOLEAN :
        LET d == afterLogout(threw) IN
        /\ pc' = IF d.to = "return" THEN "idle" ELSE d.to
        /\ outcome' = d.outcome
        /\ trace' = Log("logout:" \o Mark(threw))
    /\ UNCHANGED <<account, patchResult, branch, timers, reloads, storage,
                   platform, reset, attempts>>
    /\ UNCHANGED dbVars
    /\ UNCHANGED sideVars

ResetMachineId ==
    /\ pc = "resetMachineId"
    /\ \E failures \in 0..maxRetries :
        LET r == resetMachineId(storage, generateMachineIds(NumText(attempts)),
                                platform, failures)
            d == afterReset(r.threw, ResetError)
        IN
        /\ storage' = r.doc
        /\ pc' = IF d.to = "return" THEN "idle" ELSE d.to
        /\ outcome' = d.outcome
        /\ trace' = Log("reset:" \o Mark(r.threw))
    /\ UNCHANGED <<account, patchResult, branch, timers, reloads, platform,
                   reset, attempts>>
    /\ UNCHANGED dbVars
    /\ UNCHANGED sideVars

Inject ==
    /\ pc = "inject"
    /\ \E threw \in BOOLEAN :
        LET d == afterInject(threw, InjectError) IN
        /\ branch' = d.branch
        /\ pc' = IF d.to = "return" THEN "idle" ELSE PcOfWrite(1)
        /\ outcome' = d.outcome
        /\ trace' = Log("inject:" \o Mark(threw))
                        \o (IF d.branch = "catch" THEN <<"catch">> ELSE <<>>)
    /\ injected' = Invoked(injectArgs(account))
    /\ UNCHANGED <<account, patchResult, timers, reloads, storage, platform,
                   reset, attempts>>
    /\ UNCHANGED dbVars
    /\ UNCHANGED <<tasks, panel, am>>

WriteAuthData ==
    /\ \E n \in 1..Len(AuthKeys), io \in IoOutcomes :
        /\ pc = PcOfWrite(n)
        /\ DoWrite(AuthKeys[n], AuthRecord(n, account, uuidv4(attempts, branch, n)), io)
        /\ LET threw == dbCall'.threw
               d == afterWrite(branch, n, threw, dbCall'.error)
               entry == "write:" \o AuthKeys[n] \o ":" \o Mark(threw)
           IN
           /\ pc' = IF d.to = "return" THEN "idle" ELSE PcOfWrite(d.n)
           /\ branch' = d.branch
           /\ outcome' = d.outcome
           /\ timers' = IF d.reload THEN timers + 1 ELSE timers
           /\ trace' = trace \o <<entry>>
                           \o (IF d.branch # branch THEN <<"catch">> ELSE <<>>)
                           \o (IF d.reload THEN <<"reload">> ELSE <<>>)
    /\ UNCHANGED <<account, patchResult, reloads, storage, platform, reset, attempts>>
    /\ UNCHANGED <<backups, clock>>
    /\ UNCHANGED sideVars

\* a reloadWindow timer fires
ReloadTimer ==
    /\ timers > 0
    /\ timers' = timers - 1
    /\ reloads' = reloads + 1
    /\ UNCHANGED <<pc, account, patchResult, branch, trace, outcome, storage, platform,
                   reset, attempts>>
    /\ UNCHANGED dbVars
    /\ UNCHANGED sideVars

(***************************************************************************)
(* AccountManager.  The list of accounts is one value of globalState; the  *)
(* two secrets of an account are entries of the secret store.  memento is  *)
(* the value globalState.get returns, atRest the value the last update     *)
(* persisted.  get hands out the value the host holds (shares) or a copy.  *)
(* createdAt and updatedAt take no part and are left out.                  *)
(***************************************************************************)
MaxAccounts == 2   \* accounts added in one behaviour

AccountFields == {"id", "email", "name", "apiKey", "apiServerUrl", "refreshToken", "planName"}

MaxCalls == 4      \* calls made on the manager in one behaviour

NoManagerCall == [op |-> "none", id |-> "", threw |-> FALSE, returned |-> Undefined, n |-> 0]

\* nothing stored: the default [] of the accounts key, no secret
NoManager ==
    [memento |-> <<>>, atRest |-> <<>>, secrets |-> {}, shares |-> TRUE, nextId |-> 1,
     currentAccountIndex |-> 0, call |-> NoManagerCall]

SecretKey(id, kind) == "windsurfSwitch.secret." \o id \o "." \o kind

\* context.secrets: store, delete, get (undefined and '' are both falsy)
SecretStore(secrets, k, v) == {p \in secrets : p[1] # k} \cup {<<k, v>>}
SecretDelete(secrets, k) == {p \in secrets : p[1] # k}
SecretGet(secrets, k) ==
    IF \E p \in secrets : p[1] = k THEN (CHOOSE p \in secrets : p[1] = k)[2] ELSE ""

StoreIfTruthy(secrets, k, v) == IF v # "" THEN SecretStore(secrets, k, v) ELSE secrets

\* the loop body of getAccounts: the secrets are assigned to the record
Restore(a, secrets) ==
    [a EXCEPT !.refreshToken =
                  IF SecretGet(secrets, SecretKey(a.id, "refreshToken")) # ""
                  THEN SecretGet(secrets, SecretKey(a.id, "refreshToken")) ELSE @,
              !.apiKey =
                  IF SecretGet(secrets, SecretKey(a.id, "apiKey")) # ""
                  THEN SecretGet(secrets, SecretKey(a.id, "apiKey")) ELSE @]

Restored(m) == [n \in 1..Len(m.memento) |-> Restore(m.memento[n], m.secrets)]

\* findIndex: 0 stands for -1
FindIndex(list, id) ==
    IF \E n \in 1..Len(list) : list[n].id = id
    THEN CHOOSE n \in 1..Len(list) :
             list[n].id = id /\ \A k \in 1..(n - 1) : list[k].id # id
    ELSE 0

Splice(list, i) == SubSeq(list, 1, i - 1) \o SubSeq(list, i + 1, Len(list))

AccountValue(a) == [t |-> "account", v |-> a]
AccountList(l) == [t |-> "accounts", v |-> l]

\* the record of a call: n counts the calls made so far
Called(m, op, id, threw, v) ==
    [op |-> op, id |-> id, threw |-> threw, returned |-> v, n |-> m.call.n + 1]

\* globalState.update: the value is persisted and held by the host
Update(m, list) == [m EXCEPT !.memento = list, !.atRest = list]

\* the records handed out by get are changed in place when the host shares them
getAccounts(m) ==
    [(IF m.shares THEN [m EXCEPT !.memento = Restored(m)] ELSE m)
        EXCEPT !.call = Called(m, "getAccounts", "", FALSE, AccountList(Restored(m)))]

getAccount(m, id) ==
    [getAccounts(m) EXCEPT !.call =
        Called(m, "getAccount", id, FALSE,
               IF FindIndex(Restored(m), id) = 0 THEN Undefined
               ELSE AccountValue(Restored(m)[FindIndex(Restored(m), id)]))]

NewId(m) == "acc-" \o NumText(m.nextId)

WithId(data, id) == [f \in AccountFields |-> IF f = "id" THEN id ELSE data[f]]

Cleared(a) == [a EXCEPT !.refreshToken = "", !.apiKey = ""]

addAccount(m, data) ==
    LET a == WithId(data, NewId(m))
        s1 == StoreIfTruthy(m.secrets, SecretKey(a.id, "refreshToken"), a.refreshToken)
        s2 == StoreIfTruthy(s1, SecretKey(a.id, "apiKey"), a.apiKey) IN
    [Update(m, Append(m.memento, Cleared(a)))
        EXCEPT !.secrets = s2, !.nextId = m.nextId + 1,
               !.call = Called(m, "addAccount", a.id, FALSE, AccountValue(a))]

\* { ...accounts[index], ...updates }
Merged(a, updates) ==
    [f \in AccountFields |-> IF f \in DOMAIN updates THEN updates[f] ELSE a[f]]

Updates(updates, f) == IF f \in DOMAIN updates THEN updates[f] ELSE ""

updateAccount(m, id, updates) ==
    LET i == FindIndex(m.memento, id) IN
    IF i = 0 THEN [m EXCEPT !.call = Called(m, "updateAccount", id, FALSE, Undefined)]
    ELSE LET s1 == StoreIfTruthy(m.secrets, SecretKey(id, "refreshToken"),
                                 Updates(updates, "refreshToken"))
             s2 == StoreIfTruthy(s1, SecretKey(id, "apiKey"), Updates(updates, "apiKey"))
             list == [m.memento EXCEPT ![i] = Cleared(Merged(m.memento[i], updates))]
             stored == [Update(m, list) EXCEPT !.secrets = s2] IN
         [getAccount(stored, id) EXCEPT !.call =
             Called(m, "updateAccount", id, FALSE, getAccount(stored, id).call.returned)]

\* a removal that leaves the secrets of the account in the secret store
removeAccount_KeepsSecrets(m, id) ==
    LET i == FindIndex(m.memento, id) IN
    IF i = 0 THEN [m EXCEPT !.call = Called(m, "removeAccount", id, FALSE, Bool(FALSE))]
    ELSE [Update(m, Splice(m.memento, i))
             EXCEPT !.call = Called(m, "removeAccount", id, FALSE, Bool(TRUE))]

removeAccount(m, id) ==
    LET i == FindIndex(m.memento, id) IN
    IF i = 0 THEN [m EXCEPT !.call = Called(m, "removeAccount", id, FALSE, Bool(FALSE))]
    ELSE [Update(m, Splice(m.memento, i))
             EXCEPT !.secrets = SecretDelete(SecretDelete(m.secrets,
                                                 SecretKey(id, "refreshToken")),
                                             SecretKey(id, "apiKey")),
                    !.call = Called(m, "removeAccount", id, FALSE, Bool(TRUE))]

\* the last value of member k of a parsed object, undefined without one
Member(o, k) ==
    IF o.t = "obj" /\ \E n \in 1..Len(o.v) : o.v[n].k = k
    THEN o.v[CHOOSE n \in 1..Len(o.v) :
                 o.v[n].k = k /\ \A j \in (n + 1)..Len(o.v) : o.v[j].k # k].v
    ELSE Undefined

\* v || d for the members of an imported account, which are texts
TextOr(v, d) == IF v.t = "str" /\ v.v # "" THEN v.v ELSE d

\* email.split('@')[0]
RECURSIVE LocalPartFrom(_, _)
LocalPartFrom(email, i) ==
    IF i > Len(email) \/ CharAt(email, i) = "@" THEN SubSeq(email, 1, i - 1)
    ELSE LocalPartFrom(email, i + 1)

LocalPart(email) == LocalPartFrom(email, 1)

Importable(acc) ==
    /\ TextOr(Member(acc, "email"), "") # ""
    /\ TextOr(Member(acc, "apiKey"), "") # "" \/ TextOr(Member(acc, "refreshToken"), "") # ""

ImportedData(acc) ==
    [id |-> "",
     email |-> Member(acc, "email").v,
     name |-> TextOr(Member(acc, "name"), LocalPart(Member(acc, "email").v)),
     apiKey |-> TextOr(Member(acc, "apiKey"), ""),
     apiServerUrl |-> TextOr(Member(acc, "apiServerUrl"), DefaultServerUrl),
     refreshToken |-> TextOr(Member(acc, "refreshToken"), ""),
     planName |-> TextOr(Member(acc, "planName"), "Pro")]

\* the loop of importAccounts: one addAccount per item that qualifies
RECURSIVE ImportEach(_, _, _)
ImportEach(m, items, count) ==
    IF items = <<>> THEN [am |-> m, count |-> count]
    ELSE IF Importable(Head(items))
         THEN ImportEach(addAccount(m, ImportedData(Head(items))), Tail(items), count + 1)
         ELSE ImportEach(m, Tail(items), count)

InvalidJson == "invalid JSON"

ImportTexts ==
    {"[{\"email\":\"ed@x.io\"},{\"email\":\"cy@x.io\",\"apiKey\":\"sk-cy\"}]",
     "{\"email\":\"di@x.io\",\"refreshToken\":\"rt-di\",\"name\":\"Di\"}",
     "oops"}

\* JSON.parse of the texts a user imports, computed once
Parsed == [jsonData \in ImportTexts |-> JSONparse(jsonData)]

importAccounts(m, jsonData) ==
    LET p == Parsed[jsonData] IN
    IF ~p.ok THEN [m EXCEPT !.call = Called(m, "importAccounts", InvalidJson, TRUE, Undefined)]
    ELSE LET r == ImportEach(m, IF p.v.t = "arr" THEN p.v.v ELSE <<p.v>>, 0) IN
         [r.am EXCEPT !.call = Called(m, "importAccounts", "", FALSE, Num(r.count))]

\* globalState.update(CURRENT_INDEX_KEY, index)
setCurrentAccountIndex(m, index) == [m EXCEPT !.currentAccountIndex = index]

NextValue(a, index) == [t |-> "next", account |-> a, index |-> index]

\* a successor index that is not wrapped around the end of the list
getNextAccount_NoWrap(m) ==
    IF Len(m.memento) = 0
    THEN [getAccounts(m) EXCEPT !.call =
             Called(m, "getNextAccount", "", FALSE, NextValue(Undefined, -1))]
    ELSE [getAccounts(m) EXCEPT !.call =
             Called(m, "getNextAccount", "", FALSE,
                    NextValue(IF m.currentAccountIndex + 2 <= Len(m.memento)
                              THEN AccountValue(Restored(m)[m.currentAccountIndex + 2])
                              ELSE Undefined,
                              m.currentAccountIndex + 1))]

\* { account, index }: the account after the current one, cyclically
getNextAccount(m) ==
    IF Len(m.memento) = 0
    THEN [getAccounts(m) EXCEPT !.call =
             Called(m, "getNextAccount", "", FALSE, NextValue(Undefined, -1))]
    ELSE [getAccounts(m) EXCEPT !.call =
             Called(m, "getNextAccount", "", FALSE,
                    NextValue(AccountValue(Restored(m)[((m.currentAccountIndex + 1)
                                                            % Len(m.memento)) + 1]),
                              (m.currentAccountIndex + 1) % Len(m.memento)))]

\* the accounts a user has saved, in the order they were added
SavedData ==
    <<[id |-> "", email |-> "ann@x.io", name |-> "Ann", apiKey |-> "sk-ann",
       apiServerUrl |-> "https://eu.windsurf.com", refreshToken |-> "", planName |-> "Team"],
      [id |-> "", email |-> "bob@x.io", name |-> "Bob", apiKey |-> "sk-bob",
       apiServerUrl |-> "", refreshToken |-> "", planName |-> ""],
      [id |-> "", email |-> "cy@x.io", name |-> "Cy", apiKey |-> "sk-cy",
       apiServerUrl |-> "", refreshToken |-> "rt-cy", planName |-> "Pro"]>>

RECURSIVE AddEach(_, _)
AddEach(m, datas) ==
    IF datas = <<>> THEN m ELSE AddEach(addAccount(m, Head(datas)), Tail(datas))

\* the manager after the first k accounts were added, the stored index being index
Saved(k, index) ==
    [AddEach(NoManager, SubSeq(SavedData, 1, k))
        EXCEPT !.currentAccountIndex = index, !.call = NoManagerCall]

\* what the user enters
AccountData ==
    {[id |-> "", email |-> "ann@x.io", name |-> "Ann", apiKey |-> "sk-ann",
      apiServerUrl |-> "https://eu.windsurf.com", refreshToken |-> "", planName |-> "Team"],
     [id |-> "", email |-> "bob@x.io", name |-> "Bob", apiKey |-> "",
      apiServerUrl |-> "", refreshToken |-> "rt-bob", planName |-> ""]}

AccountUpdates ==
    {[name |-> "Renamed"],
     [apiKey |-> "sk-new", planName |-> "Pro"]}

\* the ids a caller can name: those handed out so far and one that never was
KnownIds == {"acc-" \o NumText(n) : n \in 1..MaxAccounts} \cup {"acc-none"}

ManagerFrame ==
    /\ UNCHANGED <<tasks, panel, injected>>
    /\ UNCHANGED dbVars
    /\ UNCHANGED switchVars

AddAccount ==
    /\ am.nextId <= MaxAccounts
    /\ am.call.n < MaxCalls
    /\ \E data \in AccountData : am' = addAccount(am, data)
    /\ ManagerFrame

ImportAccounts ==
    /\ am.nextId <= MaxAccounts
    /\ am.call.n < MaxCalls
    /\ \E jsonData \in ImportTexts : am' = importAccounts(am, jsonData)
    /\ ManagerFrame

UpdateAccount ==
    /\ am.call.n < MaxCalls
    /\ \E id \in KnownIds, updates \in AccountUpdates : am' = updateAccount(am, id, updates)
    /\ ManagerFrame

RemoveAccount ==
    /\ am.call.n < MaxCalls
    /\ \E id \in KnownIds : am' = removeAccount(am, id)
    /\ ManagerFrame

GetAccounts ==
    /\ am.call.n < MaxCalls
    /\ am' = getAccounts(am)
    /\ ManagerFrame

GetAccount ==
    /\ am.call.n < MaxCalls
    /\ \E id \in KnownIds : am' = getAccount(am, id)
    /\ ManagerFrame

(***************************************************************************)
(* The triggers of the user.  Every 'switchAccount' message of the panel   *)
(* and every switchNext command calls switchAccount; the executions they   *)
(* start interleave at their awaits.                                       *)
(***************************************************************************)
MaxTriggers == 2   \* triggers in one behaviour

\* no trigger has arrived
NoPanel == [runs |-> <<>>, triggers |-> 0]

\* a switchAccount execution that has just been called
Run(trigger, a) ==
    [trigger |-> trigger, account |-> a, pc |-> "patchCheck", branch |-> "try",
     outcome |-> NoOutcome]

InFlight(r) == r.pc # "returned"

PcAfter(to) == IF to = "return" THEN "returned" ELSE to

\* the writes of overlapping executions succeed; Spec explores their failures
RunIo == {"ok"}

\* onDidReceiveMessage, case 'switchAccount': _switchAccount(accountId) finds
\* the account and calls switchAccount
\* the 'switchAccount' message of the panel: _switchAccount(data.accountId)
PanelSwitchAccount ==
    /\ panel.triggers < MaxTriggers
    /\ \E accountId \in KnownIds :
        \E m \in {getAccount(am, accountId)} :
        /\ am' = m
        /\ panel' = IF m.call.returned.t = "undefined"
                     THEN [panel EXCEPT !.triggers = @ + 1]
                     ELSE [panel EXCEPT !.triggers = @ + 1,
                                        !.runs = Append(@, Run("panel", m.call.returned.v))]
    /\ UNCHANGED <<tasks, injected>>
    /\ UNCHANGED dbVars
    /\ UNCHANGED switchVars

\* the switchNext command, at most limit triggers in a behaviour: the index
\* is stored before switchAccount is called
SwitchNext(limit) ==
    /\ panel.triggers < limit
    /\ \E m \in {getNextAccount(am)} :
        IF m.call.returned.account.t = "undefined"
        THEN /\ am' = m
             /\ panel' = [panel EXCEPT !.triggers = @ + 1]
        ELSE /\ am' = setCurrentAccountIndex(m, m.call.returned.index)
             /\ panel' = [panel EXCEPT !.triggers = @ + 1,
                                        !.runs = Append(@, Run("switchNext",
                                                               m.call.returned.account.v))]
    /\ UNCHANGED <<tasks, injected>>
    /\ UNCHANGED dbVars
    /\ UNCHANGED switchVars

SwitchNextCommand ==
    /\ panel.triggers < MaxTriggers
    /\ SwitchNext(MaxTriggers)

MaxNext == 3       \* switchNext commands given one after the other

\* the user gives the command again once the switch it started has returned
SwitchNextInTurn ==
    /\ \A i \in 1..Len(panel.runs) : ~InFlight(panel.runs[i])
    /\ SwitchNext(MaxNext)

RunPrelude(i) ==
    /\ \E r \in {panel.runs[i]} :
        \/ /\ r.pc = "patchCheck"
           /\ \E res \in PatchResults, threw \in BOOLEAN :
               \E d \in {IF threw THEN outerCatch(PatchError) ELSE afterPatchCheck(res)} :
               /\ panel' = [panel EXCEPT !.runs[i].pc = PcAfter(d.to),
                                         !.runs[i].outcome = d.outcome]
               /\ timers' = IF d.reload THEN timers + 1 ELSE timers
        \/ /\ r.pc = "logout"
           /\ \E threw \in BOOLEAN :
               panel' = [panel EXCEPT !.runs[i].pc = PcAfter(afterLogout(threw).to)]
           /\ UNCHANGED timers
        \/ /\ r.pc = "resetMachineId"
           /\ \E threw \in BOOLEAN :
               panel' = [panel EXCEPT !.runs[i].pc = PcAfter(afterReset(threw, ResetError).to)]
           /\ UNCHANGED timers
        \/ /\ r.pc = "inject"
           /\ \E threw \in BOOLEAN :
               \E d \in {afterInject(threw, InjectError)} :
               panel' = [panel EXCEPT !.runs[i].pc = PcOfWrite(1),
                                     !.runs[i].branch = d.branch]
           /\ UNCHANGED timers
    /\ UNCHANGED <<pc, account, patchResult, branch, trace, outcome, reloads, storage,
                   platform, reset, attempts>>
    /\ injected' = IF panel.runs[i].pc = "inject" THEN Invoked(injectArgs(panel.runs[i].account))
                   ELSE injected
    /\ UNCHANGED <<tasks, am>>
    /\ UNCHANGED dbVars

\* the n-th writeToDB of the writeAuthData of an execution
RunWrite(i) ==
    /\ \E r \in {panel.runs[i]}, n \in 1..Len(AuthKeys), io \in RunIo :
        /\ r.pc = PcOfWrite(n)
        /\ DoWrite(AuthKeys[n], AuthRecord(n, r.account, uuidv4(i, r.branch, n)), io)
        /\ \E d \in {afterWrite(r.branch, n, dbCall'.threw, dbCall'.error)} :
            /\ panel' = [panel EXCEPT
                            !.runs[i].pc = IF d.to = "return" THEN "returned"
                                           ELSE PcOfWrite(d.n),
                            !.runs[i].branch = d.branch,
                            !.runs[i].outcome = d.outcome]
            /\ timers' = IF d.reload THEN timers + 1 ELSE timers
    /\ UNCHANGED <<pc, account, patchResult, branch, trace, outcome, reloads, storage,
                   platform, reset, attempts>>
    /\ UNCHANGED <<backups, clock>>
    /\ UNCHANGED <<tasks, am, injected>>

RunStep == \E i \in 1..Len(panel.runs) : RunPrelude(i) \/ RunWrite(i)


(***************************************************************************)
(* Engine calls that overlap.  A call suspends at its readFile and at its  *)
(* writeFile; between the two it holds the table it loaded, changes that   *)
(* copy and exports it.  Nothing keeps another call, or the host           *)
(* application, from loading or overwriting the file in between.           *)
(***************************************************************************)
MaxTasks == 2      \* calls in one behaviour

RaceKeys == <<"foo.a", "foo.b", "bar.c">>
RaceTables == {RowsOf(RaceKeys, keep) : keep \in SUBSET {"foo.a", "bar.c"}}

EngineCall(op, key, value) == [op |-> op, key |-> key, value |-> value]
RaceCalls ==
    {EngineCall("writeToDB", TestKey, Str("123")),
     EngineCall("writeToDB", "foo.b", Num(7)),
     EngineCall("deleteFromDB", TestKey, Undefined),
     EngineCall("deleteFromDB", HostKey, Undefined),
     EngineCall("deleteByPattern", "foo.%", Undefined),
     EngineCall("hostWrite", HostKey, Str("{\"v\":2}"))}

\* the host application stores the text of its own key
hostWrite(rows, sql, key, value, io) ==
    IF io = "readFails" THEN Thrown(ReadError, FALSE, rows, sql)
    ELSE IF io = "writeFails" THEN Thrown(WriteError, TRUE, rows, sql)
    ELSE Overwrote(Bool(TRUE), InsertOrReplace(rows, key, value.v), sql)

\* the call c made on the table rows
Result(c, rows, io) ==
    CASE c.op = "writeToDB" -> writeToDB(rows, TRUE, c.key, c.value, io)
      [] c.op = "deleteFromDB" -> deleteFromDB(rows, TRUE, c.key, io)
      [] c.op = "deleteByPattern" -> deleteByPattern(rows, TRUE, c.key, io)
      [] c.op = "hostWrite" -> hostWrite(rows, TRUE, c.key, c.value, io)

\* an export that re-reads the file before it changes it
Exported_FromDisk(c, loaded, current) == Result(c, current, "ok").table

\* db.export(): the table loaded at readFile with the change of c applied;
\* current is the file at the moment of writeFile
Exported(c, loaded, current) == Result(c, loaded, "ok").table

Task(c) ==
    [call |-> c, pc |-> "load", image |-> <<>>, loadedAt |-> 0, wroteAt |-> 0,
     threw |-> FALSE, returned |-> Undefined]

\* loads and overwrites so far, plus one
NextEvent ==
    1 + Cardinality({i \in 1..Len(tasks) : tasks[i].loadedAt > 0})
      + Cardinality({i \in 1..Len(tasks) : tasks[i].wroteAt > 0})

\* a call is made: initSqlJs resolves, readFile is pending
RaceStart ==
    /\ Len(tasks) < MaxTasks
    /\ \E c \in RaceCalls : tasks' = Append(tasks, Task(c))
    /\ sqlJsInstance' = TRUE
    /\ UNCHANGED <<file, lastWritten, lastRead, dbCall, backups, clock>>
    /\ UNCHANGED <<panel, am, injected>>
    /\ UNCHANGED switchVars

\* readFile settles: the call holds the table of this moment
RaceLoad(i) ==
    /\ tasks[i].pc = "load"
    /\ \E io \in {"ok", "readFails"} :
        IF io = "ok"
        THEN tasks' = [tasks EXCEPT ![i].pc = "overwrite", ![i].image = file,
                                    ![i].loadedAt = NextEvent]
        ELSE \E r \in {Result(tasks[i].call, file, io)} :
             tasks' = [tasks EXCEPT ![i].pc = "done", ![i].threw = r.threw,
                                    ![i].returned = r.returned]
    /\ UNCHANGED dbVars
    /\ UNCHANGED <<panel, am, injected>>
    /\ UNCHANGED switchVars

\* writeFile settles: the file becomes the export of the call
RaceOverwrite(i) ==
    /\ tasks[i].pc = "overwrite"
    /\ \E io \in {"ok", "writeFails"} :
        \E r \in {Result(tasks[i].call, tasks[i].image, io)} :
        /\ file' = IF r.overwrote THEN Exported(tasks[i].call, tasks[i].image, file)
                   ELSE file
        /\ tasks' = [tasks EXCEPT ![i].pc = "done", ![i].threw = r.threw,
                                  ![i].returned = r.returned,
                                  ![i].wroteAt = IF r.overwrote THEN NextEvent ELSE 0]
    /\ UNCHANGED <<lastWritten, lastRead, dbCall, sqlJsInstance, backups, clock>>
    /\ UNCHANGED <<panel, am, injected>>
    /\ UNCHANGED switchVars

RaceStep == \E i \in 1..Len(tasks) : RaceLoad(i) \/ RaceOverwrite(i)

(***************************************************************************)
(* Specifications                                                          *)
(***************************************************************************)
InitialStorage ==
    {Absent, Unparsable, Null,
     Obj(<<Prop("telemetry.machineId", Str("sha256-0")),
           Prop("theme", Str("dark"))>>)}

InitSide ==
    /\ tasks = <<>>
    /\ panel = NoPanel
    /\ am = NoManager
    /\ injected = NoInjection

InitStore ==
    /\ InitSide
    /\ file \in InitialTables
    /\ lastWritten = [k \in Keys |-> Unknown]
    /\ lastRead = NoRead
    /\ dbCall = NoCall
    /\ sqlJsInstance = FALSE
    /\ backups = <<>>
    /\ clock = 0

InitSwitch ==
    /\ pc = "idle"
    /\ account = CHOOSE a \in Accounts : a.id = "id-1"
    /\ patchResult = NoPatch
    /\ branch = "try"
    /\ trace = <<>>
    /\ outcome = NoOutcome
    /\ timers = 0
    /\ reloads = 0
    /\ storage \in InitialStorage
    /\ platform \in {"darwin", "linux"}
    /\ reset = NoReset
    /\ attempts = 0

Init == InitStore /\ InitSwitch

Next ==
    \/ SwitchAccount
    \/ PatchCheck
    \/ Logout
    \/ ResetMachineId
    \/ Inject
    \/ WriteAuthData
    \/ ReloadTimer

Spec == Init /\ [][Next]_vars

\* every external call of an execution in flight returns or throws: the step
\* that awaits it is taken.  The attempts start from an empty table and
\* without a storage.json; what the calls do is chosen as in Spec.
InitFair == Init /\ file = <<>> /\ storage = Absent /\ platform = "linux"

SpecFair ==
    /\ InitFair
    /\ [][Next]_vars
    /\ WF_vars(PatchCheck)
    /\ WF_vars(Logout)
    /\ WF_vars(ResetMachineId)
    /\ WF_vars(Inject)
    /\ WF_vars(WriteAuthData)

\* switches made on a table that no one else writes: empty, or as an earlier
\* switch left it
InitPrevious ==
    /\ InitSide
    /\ file \in SwitchTables
    /\ lastWritten = [k \in Keys |-> Unknown]
    /\ lastRead = NoRead
    /\ dbCall = NoCall
    /\ sqlJsInstance = FALSE
    /\ backups = <<>>
    /\ clock = 0
    /\ InitSwitch
    /\ storage = Absent
    /\ platform = "linux"

SpecSwitch == InitPrevious /\ [][Next]_vars

\* resetMachineId on its own, on every kind of storage.json
ResetStorage ==
    InitialStorage
        \cup {Arr(<<Num(1)>>),
              Obj(<<Prop("window", Obj(<<Prop("zoom", Num(2)), Prop("tabs", Arr(<<Str("a\"b")>>))>>)),
                    Prop("telemetry.macMachineId", Str("sha512-0")),
                    Prop("telemetry.sqmId", Str("{UUID-0}")),
                    Prop("theme", Null)>>)}

InitReset ==
    /\ InitStore
    /\ file = <<>>
    /\ pc = "idle"
    /\ account = CHOOSE a \in Accounts : a.id = "id-1"
    /\ patchResult = NoPatch
    /\ branch = "try"
    /\ trace = <<>>
    /\ outcome = NoOutcome
    /\ timers = 0
    /\ reloads = 0
    /\ storage \in ResetStorage
    /\ platform \in {"darwin", "linux"}
    /\ reset = NoReset
    /\ attempts = 0

NextReset == ResetStart \/ ResetRead \/ ResetWait \/ ResetWrite

SpecReset == InitReset /\ [][NextReset]_vars

\* every read, wait and write of a call in flight completes.  A write
\* attempt is enabled exactly when its failing outcomes are, and every
\* outcome of it ends the attempt, so fairness is stated on those.
SpecResetFair ==
    /\ SpecReset
    /\ WF_vars(ResetRead)
    /\ WF_vars(ResetWait)
    /\ WF_vars(\E o \in WriteFailures : WriteAttempt(o))

\* the triggers of the user and the executions they start
InitPanel ==
    /\ tasks = <<>>
    /\ panel = NoPanel
    /\ am = Saved(2, 0)
    /\ injected = NoInjection
    /\ file = <<>>
    /\ lastWritten = [k \in Keys |-> Unknown]
    /\ lastRead = NoRead
    /\ dbCall = NoCall
    /\ sqlJsInstance = FALSE
    /\ backups = <<>>
    /\ clock = 0
    /\ InitSwitch
    /\ storage = Absent
    /\ platform = "linux"

NextPanel == PanelSwitchAccount \/ SwitchNextCommand \/ RunStep

SpecPanel == InitPanel /\ [][NextPanel]_vars

\* switchNext commands given in turn, from every list of saved accounts and
\* every stored index, the stale ones included
InitNext ==
    /\ tasks = <<>>
    /\ panel = NoPanel
    /\ am \in {Saved(k, index) : k \in 0..Len(SavedData), index \in 0..Len(SavedData)}
    /\ injected = NoInjection
    /\ file = <<>>
    /\ lastWritten = [k \in Keys |-> Unknown]
    /\ lastRead = NoRead
    /\ dbCall = NoCall
    /\ sqlJsInstance = FALSE
    /\ backups = <<>>
    /\ clock = 0
    /\ InitSwitch
    /\ storage = Absent
    /\ platform = "linux"

NextNext == SwitchNextInTurn \/ RunStep

SpecNext == InitNext /\ [][NextNext]_vars

InitRace ==
    /\ InitSide
    /\ file \in RaceTables
    /\ lastWritten = [k \in Keys |-> Unknown]
    /\ lastRead = NoRead
    /\ dbCall = NoCall
    /\ sqlJsInstance = FALSE
    /\ backups = <<>>
    /\ clock = 0
    /\ InitSwitch
    /\ storage = Absent
    /\ platform = "linux"

NextRace == RaceStart \/ RaceStep

SpecRace == InitRace /\ [][NextRace]_vars

InitAccounts ==
    /\ tasks = <<>>
    /\ panel = NoPanel
    /\ am \in {[NoManager EXCEPT !.shares = b] : b \in BOOLEAN}
    /\ injected = NoInjection
    /\ file = <<>>
    /\ lastWritten = [k \in Keys |-> Unknown]
    /\ lastRead = NoRead
    /\ dbCall = NoCall
    /\ sqlJsInstance = FALSE
    /\ backups = <<>>
    /\ clock = 0
    /\ InitSwitch
    /\ storage = Absent
    /\ platform = "linux"

NextAccounts ==
    \/ AddAccount
    \/ ImportAccounts
    \/ UpdateAccount
    \/ RemoveAccount
    \/ GetAccounts
    \/ GetAccount

SpecAccounts == InitAccounts /\ [][NextAccounts]_vars

\* the engine on its own: calls on the store, no switch in flight
InitDB ==
    /\ InitStore
    /\ pc = "idle"
    /\ account = CHOOSE a \in Accounts : a.id = "id-1"
    /\ patchResult = NoPatch
    /\ branch = "try"
    /\ trace = <<>>
    /\ outcome = NoOutcome
    /\ timers = 0
    /\ reloads = 0
    /\ storage = Absent
    /\ platform = "linux"
    /\ reset = NoReset
    /\ attempts = 0

NextDB ==
    \/ WriteToDB
    \/ ReadFromDB
    \/ DeleteFromDB

SpecDB == InitDB /\ [][NextDB]_vars

\* the maintenance calls of the engine on a table of several keys
InitMaint ==
    /\ InitSide
    /\ file \in PatternTables
    /\ lastWritten = [k \in Keys |-> Unknown]
    /\ lastRead = NoRead
    /\ dbCall = NoCall
    /\ sqlJsInstance = FALSE
    /\ backups = <<>>
    /\ clock = 0
    /\ InitSwitch

NextMaint == DeleteByPattern

SpecMaint == InitMaint /\ [][NextMaint]_vars

\* backups of a table that shrinks as time passes
InitBackup ==
    /\ InitSide
    /\ file = RowsOf(PatternKeys, {"foo.a", "foo.b", "bar.c"})
    /\ lastWritten = [k \in Keys |-> Unknown]
    /\ lastRead = NoRead
    /\ dbCall = NoCall
    /\ sqlJsInstance = FALSE
    /\ backups = <<>>
    /\ clock = 0
    /\ InitSwitch

NextBackup == BackupDB \/ Tick \/ DeleteBeforeBackup

SpecBackup == InitBackup /\ [][NextBackup]_vars

(***************************************************************************)
(* Properties                                                              *)
(***************************************************************************)
PatchPassed ==
    /\ patchResult.called /\ ~patchResult.threw
    /\ ~patchResult.needsRestart /\ patchResult.error = ""
Returned == pc = "idle" /\ attempts > 0
WriteEntry(n, threw) == "write:" \o AuthKeys[n] \o ":" \o Mark(threw)
WriteCount(n) == Count(WriteEntry(n, FALSE)) + Count(WriteEntry(n, TRUE))
AllWritesOk == \A n \in 1..Len(AuthKeys) : Has(WriteEntry(n, FALSE))
LastEntry == IF trace = <<>> THEN "" ELSE trace[Len(trace)]
Stored(key) == SelectSeq2(file, {key})
\* a record write of the catch block threw
FallbackWriteThrew ==
    \E i, j \in 1..Len(trace) :
        /\ i < j
        /\ trace[i] = "catch"
        /\ \E n \in 1..Len(AuthKeys) : trace[j] = WriteEntry(n, TRUE)

\* C1: when the patch check reports needsRestart (with or without an error),
\* switchAccount returns success = false and needsRestart = true, schedules
\* one reload, and performs no logout, no identity reset, no live injection
\* and no store write in that attempt.
C1_RestartAborts ==
    (patchResult.called /\ patchResult.needsRestart) =>
        /\ pc = "idle"
        /\ outcome.success = FALSE
        /\ outcome.needsRestart = TRUE
        /\ {"success", "needsRestart"} \subseteq outcome.fields
        /\ trace = <<"patch", "reload">>
        /\ timers + reloads >= 1

C1_Witness ==
    /\ Returned
    /\ patchResult.called /\ patchResult.needsRestart /\ patchResult.error # ""
    /\ outcome.needsRestart

\* C2: when the patch check reports an error and needsRestart is false,
\* switchAccount returns {success:false, error} with exactly the patch error
\* and performs or schedules no logout, identity reset, live injection, store
\* write or reload.
C2_PatchErrorAborts ==
    (patchResult.called /\ ~patchResult.needsRestart /\ patchResult.error # "") =>
        /\ pc = "idle"
        /\ outcome = Failure(patchResult.error)
        /\ trace = <<"patch">>
        /\ (attempts = 1 => timers = 0 /\ reloads = 0 /\ dbCall = NoCall)

C2_Witness ==
    /\ Returned
    /\ patchResult.called /\ ~patchResult.needsRestart /\ patchResult.error # ""
    /\ outcome.error = patchResult.error /\ outcome.error # ""

\* C3 as stated: whenever the patch check passes and the live-injection
\* command throws, switchAccount writes the auth-status record and returns
\* {success:true}.
C3_Original ==
    (Returned /\ PatchPassed /\ Has("inject:throw")) =>
        /\ Has(WriteEntry(1, FALSE))
        /\ outcome = Success

\* C3 amended: whenever the patch check passes and the live-injection command
\* throws, switchAccount attempts the auth-status write once, and when all
\* three record writes succeed the store holds the auth-status record of the
\* target account and the outcome is {success:true}.
C3_FallbackSuccess ==
    (Returned /\ PatchPassed /\ Has("inject:throw")) =>
        /\ WriteCount(1) = 1
        /\ AllWritesOk =>
            /\ outcome = Success
            /\ Len(Stored(AuthKeys[1])) = 1
            /\ Decode(Stored(AuthKeys[1])[1].value)
                   = authStatus(account, uuidv4(attempts, "catch", 1))

C3_Witness ==
    /\ Returned /\ PatchPassed
    /\ Has("inject:throw")
    /\ AllWritesOk
    /\ outcome.success

\* C4: when the live-injection command succeeds, switchAccount returns
\* {success:true} whether or not the follow-up store write succeeds, the
\* fallback path (second durable write plus reload) is not entered, and each
\* of the three records is written at most once in that attempt.
C4_BackstopBestEffort ==
    (Returned /\ PatchPassed /\ Has("inject:ok")) =>
        /\ outcome = Success
        /\ ~Has("catch")
        /\ ~Has("reload")
        /\ \A n \in 1..Len(AuthKeys) : WriteCount(n) <= 1

\* C5: in the fallback path, when one of the three record writes errors,
\* switchAccount returns success = false with that write's error text in the
\* error field.
C5_FallbackWriteError ==
    (Returned /\ FallbackWriteThrew) =>
        /\ \E n \in 1..Len(AuthKeys) : LastEntry = WriteEntry(n, TRUE)
        /\ dbCall.threw
        /\ dbCall.error \in {InitError, ReadError, WriteError}
        /\ outcome = Failure(dbCall.error)

C5_Witness ==
    /\ Returned
    /\ Has("inject:throw")
    /\ LastEntry = WriteEntry(3, TRUE)
    /\ outcome.error = WriteError

\* C6: in every switch attempt whose patch check passes, the live-injection
\* command is attempted, whether or not logout or the identity reset threw:
\* no outcome is returned before the injection.
C6_InjectAlwaysAttempted ==
    PatchPassed =>
        \/ pc \in {"logout", "resetMachineId", "inject"} /\ outcome = NoOutcome
        \/ Has("inject:ok")
        \/ Has("inject:throw")

C6_Witness ==
    /\ Returned /\ PatchPassed
    /\ Has("logout:throw")
    /\ Has("reset:throw")
    /\ Has("inject:ok")

ReadAfterWrite(types) ==
    /\ lastRead.called
    /\ lastRead.loaded
    /\ lastWritten[lastRead.key].t \in types

\* C7: for every structured (JSON object or array) value v and key, a
\* readFromDB(key) that loads the file after a successful writeToDB(key, v),
\* with no writer in between, returns a value equal to v.
C7_StructuredRoundTrip ==
    ReadAfterWrite({"arr", "obj"}) => lastRead.result = lastWritten[lastRead.key]

C7_Witness ==
    /\ ReadAfterWrite({"obj"})
    /\ lastWritten[lastRead.key]
           = Obj(<<Prop("k\\", Obj(<<Prop("b", Arr(<<Num(-7), Bool(FALSE)>>))>>))>>)
    /\ lastRead.result.t = "obj"

\* C8: a byte sequence b is stored as the tagged structure
\* { kind: "bytes", data: [byte values] } and readFromDB of the same key
\* returns a byte sequence whose bytes equal b.
C8_BytesRoundTrip ==
    ReadAfterWrite({"Buffer", "Uint8Array"}) =>
        /\ Stored(lastRead.key)[1].value
               = Str(JSONstringify(Obj(<<Prop("kind", Str("bytes")),
                                         Prop("data", BytesToArray(lastWritten[lastRead.key].v))>>)))
        /\ lastRead.result.t \in {"Buffer", "Uint8Array"}
        /\ lastRead.result.v = lastWritten[lastRead.key].v

\* C9: for every string t, including strings that are valid JSON text,
\* readFromDB(key) after writeToDB(key, t) returns the string t.
C9_TextRoundTrip ==
    ReadAfterWrite({"str"}) => lastRead.result = lastWritten[lastRead.key]

\* C10: writeToDB(key, value) with value null or undefined signals an error
\* to the caller, does not load the database file and does not overwrite it:
\* the file is unchanged.
C10_NullWriteRejected ==
    /\ [](dbCall.op = "writeToDB" /\ dbCall.valueType \in {"null", "undefined"} =>
            dbCall.threw /\ ~dbCall.loaded /\ ~dbCall.overwrote)
    /\ [][dbCall'.op = "writeToDB" /\ dbCall'.valueType \in {"null", "undefined"} =>
            file' = file]_vars

C10_Witness ==
    /\ dbCall.op = "writeToDB"
    /\ dbCall.valueType = "undefined"
    /\ dbCall.error = NullValueError(TestKey)
    /\ file # <<>>

MutationStep == ~lastRead'.called

\* C11: a failure while loading the database file or while overwriting it
\* during writeToDB reaches the caller as an error, and writeToDB returns
\* true only when the file has been overwritten with the new row.
C11_WriteFailurePropagates ==
    dbCall.op = "writeToDB" =>
        /\ dbCall.error \in {ReadError, WriteError} =>
               dbCall.threw /\ dbCall.returned = Undefined
        /\ dbCall.returned = Bool(TRUE) =>
               /\ dbCall.overwrote
               /\ Stored(dbCall.key)
                      = <<Row(dbCall.key, Str(Encode(lastWritten[dbCall.key])))>>

C11_Witness ==
    /\ dbCall.op = "writeToDB"
    /\ dbCall.error = WriteError
    /\ dbCall.loaded
    /\ dbCall.threw
    /\ Stored(TestKey) = <<Row(TestKey, Uint8Array(<<1>>))>>

\* C12: readFromDB never lets an error reach the caller: a failure in any
\* step of the read (initialising the engine, reading the file, parsing the
\* image, querying, decoding) yields null, and a stored text that is not
\* valid JSON is returned as the raw text.
C12_ReadNeverThrows ==
    lastRead.called =>
        /\ ~lastRead.threw
        /\ ~lastRead.loaded => lastRead.result = Null
        /\ \A n \in 1..Len(file) :
               (/\ lastRead.loaded
                /\ file[n].key = lastRead.key
                /\ file[n].value.t = "str"
                /\ ~JSONparse(file[n].value.v).ok)
               => lastRead.result = file[n].value

\* C13: after deleteFromDB(key) has returned true and before the next
\* writer, readFromDB(key) returns null, the key has no row, and every other
\* key of the table before the delete still has its row with its value.
C13_DeleteCorrectness ==
    /\ [](dbCall.op = "deleteFromDB" /\ dbCall.returned = Bool(TRUE) =>
            /\ dbCall.key \notin RowKeys(file)
            /\ lastRead.called /\ lastRead.key = dbCall.key =>
                   ~lastRead.threw /\ lastRead.result = Null)
    /\ [][MutationStep /\ dbCall'.op = "deleteFromDB" /\ dbCall'.returned = Bool(TRUE) =>
            \A k \in RowKeys(file) \ {dbCall'.key} :
                SelectSeq2(file', {k}) = SelectSeq2(file, {k})]_vars

C13_Witness ==
    /\ dbCall.op = "deleteFromDB"
    /\ dbCall.key = TestKey
    /\ dbCall.returned = Bool(TRUE)
    /\ dbCall.removed = 1
    /\ lastRead.called
    /\ lastRead.key = TestKey
    /\ lastRead.loaded
    /\ lastRead.result = Null
    /\ file = <<Row(HostKey, Str("x"))>>

\* C14: the result of deleteFromDB tells whether the file was rewritten, not
\* whether the key existed: deleting a key that has no row returns true and
\* leaves the rows as they were, and a failure to load or to overwrite the
\* file returns false without an exception.
C14_DeleteReportsRewrite ==
    /\ [](dbCall.op = "deleteFromDB" =>
            /\ dbCall.returned = Bool(TRUE) <=> dbCall.overwrote
            /\ dbCall.error \in {ReadError, WriteError} =>
                   ~dbCall.threw /\ dbCall.returned = Bool(FALSE))
    /\ [][(/\ MutationStep
            /\ dbCall'.op = "deleteFromDB"
            /\ dbCall'.error = ""
            /\ dbCall'.key \notin RowKeys(file))
           => dbCall'.returned = Bool(TRUE) /\ file' = file]_vars

C14_Witness ==
    /\ dbCall.op = "deleteFromDB"
    /\ dbCall.key = TestKey
    /\ dbCall.returned = Bool(TRUE)
    /\ dbCall.removed = 0
    /\ file = <<Row(HostKey, Str("{\"v\":1}"))>>

CallStep(op) == dbCall'.op = op /\ clock' = clock /\ ~lastRead'.called

Matches(rows, pattern) == {n \in 1..Len(rows) : Like(pattern, rows[n].key)}

\* C15: a deleteByPattern(pattern) that overwrites the file removes exactly
\* the rows whose key matches the pattern, returns the number of rows
\* removed, and leaves every other row in place with its value.
C15_PatternDeletePrecision ==
    [][CallStep("deleteByPattern") /\ dbCall'.overwrote =>
        \E matching \in {Matches(file, dbCall'.key)} :
        /\ file' = SelectSeq2(file, {file[n].key : n \in (1..Len(file)) \ matching})
        /\ \A n \in matching : file[n].key \notin RowKeys(file')
        /\ \A n \in (1..Len(file)) \ matching : \E m \in 1..Len(file') : file'[m] = file[n]
        /\ dbCall'.returned = Num(Cardinality(matching))
        /\ dbCall'.returned = Num(Len(file) - Len(file'))]_vars

C15_Witness ==
    /\ dbCall.op = "deleteByPattern"
    /\ dbCall.key = "foo.%"
    /\ dbCall.overwrote
    /\ dbCall.returned = Num(3)
    /\ dbCall.removed = 3
    /\ file = <<Row("bar.c", Str("v:bar.c")), Row("fooxa", Str("v:fooxa"))>>

\* C16: backupDB leaves the database file as it was, whether it returns a
\* path or null; a returned path is the path of the database followed by
\* .backup.<timestamp>, and the file at that path holds what the database
\* file held when it was copied.
C16_BackupKeepsSource ==
    [][CallStep("backupDB") =>
        /\ file' = file
        /\ dbCall'.returned # Null =>
               /\ dbCall'.returned = Str(DbPath \o ".backup." \o ToString(clock))
               /\ dbCall'.returned.v \in DOMAIN backups'
               /\ backups'[dbCall'.returned.v] = file]_vars

C16_Witness ==
    /\ dbCall.op = "backupDB"
    /\ dbCall.returned = Str(DbPath \o ".backup.1")
    /\ file = RowsOf(PatternKeys, {"foo.a", "bar.c"})
    /\ backups[DbPath \o ".backup.1"] = file
    /\ DbPath \o ".backup.0" \in DOMAIN backups
    /\ backups[DbPath \o ".backup.0"] # file

ResetDone == reset.pc = "done"

AllWritesFailed ==
    /\ Len(reset.writes) = maxRetries
    /\ \A n \in 1..maxRetries : reset.writes[n] # "ok"

ThirdWriteSucceeded ==
    /\ Len(reset.writes) = maxRetries
    /\ \A n \in 1..(maxRetries - 1) : reset.writes[n] # "ok"
    /\ reset.writes[maxRetries] = "ok"

PropValues(doc, k) == {doc.v[n].v : n \in {m \in 1..Len(doc.v) : doc.v[m].k = k}}

IdentityFields ==
    {"telemetry.machineId", "telemetry.sqmId", "telemetry.devDeviceId",
     "telemetry.macMachineId"}

HoldsIds(doc, ids, plat) ==
    /\ doc.t = "obj"
    /\ PropValues(doc, "telemetry.machineId") = {Str(ids.machineId)}
    /\ PropValues(doc, "telemetry.sqmId") = {Str(ids.sqmId)}
    /\ PropValues(doc, "telemetry.devDeviceId") = {Str(ids.devDeviceId)}
    /\ plat = "darwin" => PropValues(doc, "telemetry.macMachineId") = {Str(ids.macMachineId)}

Updated ==
    /\ ~reset.threw
    /\ storage = Written(reset.storageData)
    /\ reset.before.t \in {"absent", "unparsable", "obj"} =>
           HoldsIds(storage, reset.ids, platform)

\* C17 as stated: when the writes of storage.json fail twice and the third
\* succeeds, resetMachineId returns with the document updated; when all
\* three fail, it fails with the original write error.
C17_Original ==
    ResetDone =>
        /\ ThirdWriteSucceeded => Updated
        /\ AllWritesFailed =>
               /\ reset.threw
               /\ reset.error \in {reset.writes[n] : n \in 1..maxRetries}

\* C17: when the writes of storage.json fail twice and the third succeeds,
\* resetMachineId returns with the document updated; when all three fail, it
\* fails with a new error whose message is the fixed prefix followed by the
\* message of the error of the third write.
C17_RetryOutcome ==
    ResetDone =>
        /\ ThirdWriteSucceeded => Updated
        /\ AllWritesFailed =>
               /\ reset.threw
               /\ reset.error = ResetPrefix \o reset.writes[maxRetries]

C17_Witness ==
    /\ ResetDone
    /\ reset.writes = <<"EBUSY: resource busy or locked", "EBUSY: resource busy or locked",
                        "EACCES: permission denied">>
    /\ reset.threw
    /\ reset.error = "resetting the machine ID failed: EACCES: permission denied"

\* C18: one call writes storage.json at most three times and never after a
\* write that succeeded; no wait comes before the first write, one wait comes
\* before each retry and it lasts the base delay times the number of the
\* attempt; a call that has started ends.
C18_BoundedRetry ==
    /\ [](/\ Len(reset.writes) <= maxRetries
          /\ \A n \in 1..(Len(reset.writes) - 1) : reset.writes[n] # "ok"
          /\ Len(reset.waits) <= Len(reset.writes)
          /\ reset.pc = "write" => Len(reset.waits) = Len(reset.writes)
          /\ \A k \in 1..Len(reset.waits) : reset.waits[k] = baseDelay * (k + 1))
    /\ [](reset.pc \in {"read", "wait", "write"} => <>ResetDone)

C18_Witness ==
    /\ ResetDone
    /\ ThirdWriteSucceeded
    /\ reset.waits = <<baseDelay * 2, baseDelay * 3>>
    /\ ~reset.threw

C20_ToleratesDocument ==
    ResetDone /\ reset.before.t # "obj" =>
        /\ reset.threw => AllWritesFailed
        /\ ~reset.threw => HoldsIds(storage, reset.ids, platform)

IdsField(ids, k) ==
    CASE k = "telemetry.machineId" -> ids.machineId
      [] k = "telemetry.sqmId" -> ids.sqmId
      [] k = "telemetry.devDeviceId" -> ids.devDeviceId
      [] k = "telemetry.macMachineId" -> ids.macMachineId

\* C21: after a resetMachineId that returned, on any platform, every
\* machine-identity field of storage.json holds the value of the set this
\* call generated, none a value of an earlier generation.
C21_Supersedes ==
    ResetDone /\ ~reset.threw /\ storage.t = "obj" =>
        \A k \in IdentityFields :
            \A v \in PropValues(storage, k) : v = Str(IdsField(reset.ids, k))

RunsInFlight == {i \in 1..Len(panel.runs) : InFlight(panel.runs[i])}

\* C22: whatever the triggers of the user (switchAccount messages of the
\* panel, switchNext commands), at most one switchAccount execution is
\* between its call and its return at any time.
C22_OneInFlight == Cardinality(RunsInFlight) <= 1

\* the rows of key k in a table
RowsFor(rows, k) == SelectSeq2(rows, {k})

Touches(c, k) == IF c.op = "deleteByPattern" THEN Like(c.key, k) ELSE c.key = k

DifferentKeys(c, d) ==
    \A n \in 1..Len(RaceKeys) : ~(Touches(c, RaceKeys[n]) /\ Touches(d, RaceKeys[n]))

LastOverwrite ==
    CHOOSE w \in 0..(2 * Len(tasks)) :
        /\ \A i \in 1..Len(tasks) : tasks[i].wroteAt <= w
        /\ w = 0 \/ \E i \in 1..Len(tasks) : tasks[i].wroteAt = w

\* calls i and j both loaded before either overwrote, i overwrote first and
\* j made the last overwrite of the file
Raced(i, j) ==
    /\ i # j
    /\ DifferentKeys(tasks[i].call, tasks[j].call)
    /\ tasks[i].wroteAt > 0
    /\ tasks[j].wroteAt = LastOverwrite
    /\ tasks[i].wroteAt < tasks[j].wroteAt
    /\ tasks[i].loadedAt < tasks[i].wroteAt
    /\ tasks[j].loadedAt < tasks[i].wroteAt

ReportedSuccess(t) ==
    /\ ~t.threw
    /\ t.returned = Result(t.call, t.image, "ok").returned

\* the overwrite of call i changed a row of key k
Changed(i, k) ==
    RowsFor(Exported(tasks[i].call, tasks[i].image, tasks[i].image), k)
        # RowsFor(tasks[i].image, k)

\* C23: when two mutating calls on different keys both load the file before
\* either overwrites it, the file ends as the image of the call that
\* overwrote last: the table that call loaded with its own change applied;
\* the keys of the other call are as the last writer loaded them, although
\* the other call reported success
C23_LastWriterWins ==
    \A i, j \in 1..Len(tasks) :
        Raced(i, j) =>
            /\ file = Result(tasks[j].call, tasks[j].image, "ok").table
            /\ \A n \in 1..Len(RaceKeys) :
                   Touches(tasks[i].call, RaceKeys[n]) =>
                       RowsFor(file, RaceKeys[n]) = RowsFor(tasks[j].image, RaceKeys[n])
            /\ ReportedSuccess(tasks[i])
            /\ ReportedSuccess(tasks[j])

C23_Witness ==
    \E i, j \in 1..Len(tasks) :
        /\ Raced(i, j)
        /\ \E n \in 1..Len(RaceKeys) :
               /\ Touches(tasks[i].call, RaceKeys[n])
               /\ Changed(i, RaceKeys[n])
               /\ RowsFor(file, RaceKeys[n]) = RowsFor(tasks[i].image, RaceKeys[n])
        /\ file # tasks[j].image

\* C24: every record of the stored list of accounts has an empty apiKey and
\* an empty refreshToken
C24_NoStoredSecret ==
    \A n \in 1..Len(am.atRest) :
        am.atRest[n].apiKey = "" /\ am.atRest[n].refreshToken = ""

SecretKeysOf(id) == {SecretKey(id, "refreshToken"), SecretKey(id, "apiKey")}

HoldsSecretOf(m, id) == \E p \in m.secrets : p[1] \in SecretKeysOf(id)

Lists(m, id) ==
    \/ \E n \in 1..Len(m.memento) : m.memento[n].id = id
    \/ \E n \in 1..Len(m.atRest) : m.atRest[n].id = id

\* a step that is a call of removeAccount
RemoveStep == am'.call.op = "removeAccount" /\ am'.call.n = am.call.n + 1

\* C25: removeAccount(id) returns true exactly for an id of the list; after
\* it returned true the list has no record with that id and the secret store
\* holds neither secret of it; when it returns false the list and the secret
\* store are as they were
C25_Remove ==
    [][RemoveStep =>
          /\ am'.call.returned = Bool(Lists(am, am'.call.id))
          /\ Lists(am, am'.call.id) =>
                 ~Lists(am', am'.call.id) /\ ~HoldsSecretOf(am', am'.call.id)
          /\ ~Lists(am, am'.call.id) =>
                 /\ am'.memento = am.memento
                 /\ am'.atRest = am.atRest
                 /\ am'.secrets = am.secrets]_vars

C25_Witness ==
    /\ am.call.op = "removeAccount"
    /\ am.call.returned = Bool(TRUE)
    /\ Len(am.atRest) > 0
    /\ am.secrets # {}

\* the step of switchAccount a trace entry belongs to: 1 patch check,
\* 2 logout, 3 identity reset, 4 live injection, 5 record write; 0 for the
\* entries that are not steps
StepOf(e) ==
    CASE e = "patch" -> 1
      [] e \in {"logout:ok", "logout:throw"} -> 2
      [] e \in {"reset:ok", "reset:throw"} -> 3
      [] e \in {"inject:ok", "inject:throw"} -> 4
      [] \E n \in 1..Len(AuthKeys), threw \in BOOLEAN : e = WriteEntry(n, threw) -> 5
      [] OTHER -> 0

Steps == {n \in 1..Len(trace) : StepOf(trace[n]) > 0}

\* C26: within one attempt the steps complete in the order patch check,
\* logout, identity reset, live injection, record writes: no step completes
\* before the step ahead of it has, none of the first four is repeated, and
\* the store is not written before the injection has returned or thrown
C26_StepOrder ==
    /\ \A i, j \in Steps :
           i < j => /\ StepOf(trace[i]) <= StepOf(trace[j])
                    /\ StepOf(trace[i]) < 5 => StepOf(trace[i]) < StepOf(trace[j])
    /\ \A j \in Steps :
           StepOf(trace[j]) > 1 =>
               \E i \in Steps : i < j /\ StepOf(trace[i]) = StepOf(trace[j]) - 1
    /\ (attempts = 1 /\ ~Has("inject:ok") /\ ~Has("inject:throw")) => dbCall = NoCall
    /\ pc = "logout" => LastEntry = "patch"
    /\ pc = "resetMachineId" => StepOf(LastEntry) = 2
    /\ pc = "inject" => StepOf(LastEntry) = 3

C26_Witness ==
    /\ Returned
    /\ Has("logout:throw")
    /\ Has("reset:ok")
    /\ Has("inject:throw")
    /\ AllWritesOk
    /\ Len(trace) = 9

\* C27: an attempt that returned has scheduled a reload exactly when the
\* patch check reported needsRestart or the live injection threw; it has
\* scheduled none when the injection returned, and never more than one
C27_ReloadExactly ==
    Returned =>
        /\ Has("reload") <=> (patchResult.needsRestart \/ Has("inject:throw"))
        /\ Has("inject:ok") => ~Has("reload")
        /\ Count("reload") <= 1

\* the position of the first entry e of the trace, 0 without one
First(e) ==
    IF Has(e) THEN CHOOSE n \in 1..Len(trace) :
                       trace[n] = e /\ \A k \in 1..(n - 1) : trace[k] # e
    ELSE 0

\* the row of the n-th record as the catch block of this attempt writes it
FallbackRow(n) ==
    Row(AuthKeys[n], Str(Encode(AuthRecord(n, account, uuidv4(attempts, "catch", n)))))

\* C28: in the fallback path the reload is scheduled only after the three
\* record writes of the fallback have completed without an error: what
\* follows the entry into the fallback is the three successful writes and
\* then the reload, and the store holds the three records by then
C28_ReloadAfterWrites ==
    (Has("catch") /\ Has("reload")) =>
        /\ SubSeq(trace, First("catch") + 1, Len(trace))
               = <<WriteEntry(1, FALSE), WriteEntry(2, FALSE), WriteEntry(3, FALSE), "reload">>
        /\ \A n \in 1..Len(AuthKeys) : Stored(AuthKeys[n]) = <<FallbackRow(n)>>
        /\ outcome = Success

C28_Witness ==
    /\ Returned
    /\ Has("inject:throw")
    /\ Has("reload")
    /\ reloads = 1
    /\ \A n \in 1..Len(AuthKeys) : Stored(AuthKeys[n]) = <<FallbackRow(n)>>

\* a step of the attempt threw
StepThrew ==
    \/ patchResult.threw
    \/ Has("logout:throw") \/ Has("reset:throw") \/ Has("inject:throw")
    \/ \E n \in 1..Len(AuthKeys) : Has(WriteEntry(n, TRUE))

\* C29 as stated: an attempt in which a step threw returns
\* {success:false, error}
C29_Original ==
    (Returned /\ StepThrew) => (~outcome.success /\ outcome.error # "")

\* an error reached the outer catch block of the attempt
ReachedOuterCatch == patchResult.threw \/ FallbackWriteThrew

\* C29 amended: an attempt in flight returns, given that every external call returns
\* or throws; it has no outcome before it returns and one SwitchOutcome when
\* it has; an error that reaches the outer catch block is returned as
\* {success:false, error}; and an attempt that began the injection returns
\* only after its last record write or after a write of the fallback threw
C29_Terminates ==
    /\ [](pc # "idle" => outcome = NoOutcome)
    /\ [](Returned =>
            /\ "success" \in outcome.fields
            /\ outcome \in {Restart, Success} \cup {Failure(e) : e \in
                   {PatchError, "extension.js is not writable", InitError, ReadError,
                    WriteError}})
    /\ [](Returned /\ ReachedOuterCatch =>
            /\ ~outcome.success
            /\ outcome.fields = {"success", "error"}
            /\ outcome.error = IF patchResult.threw THEN PatchError ELSE dbCall.error
            /\ outcome.error # "")
    /\ [](Returned /\ (Has("inject:ok") \/ Has("inject:throw")) =>
            \/ outcome = Success /\ LastEntry \in {WriteEntry(3, FALSE), "reload"}
            \/ ~outcome.success /\ FallbackWriteThrew
                   /\ \E n \in 1..Len(AuthKeys) : LastEntry = WriteEntry(n, TRUE))
    /\ (pc # "idle") ~> (pc = "idle")

C29_Witness ==
    /\ Returned
    /\ patchResult.threw
    /\ outcome = Failure(PatchError)
    /\ trace = <<"patch:throw">>

\* the value of member k of an object, when it has exactly one
Only(doc, k, v) == doc.t = "obj" /\ PropValues(doc, k) = {v}

\* C30: when switchAccount(A) has returned {success:true} and nothing else
\* wrote the table, getCurrentAccount returns a record with the name, email
\* and API key of A, the configuration record holds the API key and the
\* server URL of A, the display-name record holds the name of A, and each of
\* the three keys has one row: the record of an earlier switch is replaced
C30_RecordsOfTarget ==
    (Returned /\ outcome = Success) =>
        /\ \A n \in 1..Len(AuthKeys) : Len(Stored(AuthKeys[n])) = 1
        /\ Only(getCurrentAccount(file, sqlJsInstance, "ok"), "name", Str(account.name))
        /\ Only(getCurrentAccount(file, sqlJsInstance, "ok"), "email", Str(account.email))
        /\ Only(getCurrentAccount(file, sqlJsInstance, "ok"), "apiKey", Str(account.apiKey))
        /\ Only(Decode(Stored(AuthKeys[2])[1].value), "codeium.apiKey", Str(account.apiKey))
        /\ Only(Decode(Stored(AuthKeys[2])[1].value), "apiServerUrl",
                Str(IF account.apiServerUrl # "" THEN account.apiServerUrl
                    ELSE DefaultServerUrl))
        /\ Stored(AuthKeys[3]) = <<Row(AuthKeys[3], Str(account.name))>>
        /\ \A n \in 1..Len(file) :
               file[n].key \in SwitchKeys =>
                   file[n].value # Str(Encode(authStatus(PreviousAccount, "uuid-0-try-1")))
                   /\ file[n].value # Str(PreviousAccount.name)

C30_Witness ==
    /\ Returned /\ outcome = Success
    /\ account.id = "id-2"
    /\ Stored(HostKey) = <<Row(HostKey, Str("x"))>>
    /\ Only(getCurrentAccount(file, sqlJsInstance, "ok"), "email", Str("bob@x.io"))

\* C31: the live-injection command is invoked with the API key of the target
\* account, its name field as the display name and its server URL, the
\* default URL standing in only when the account has none
C31_InjectArguments ==
    (attempts > 0 /\ injected.called) =>
        /\ injected.args.apiKey = account.apiKey
        /\ injected.args.name = account.name
        /\ injected.args.apiServerUrl =
               (IF account.apiServerUrl # "" THEN account.apiServerUrl ELSE DefaultServerUrl)

UniqueKeys(rows) == \A i, j \in 1..Len(rows) : rows[i].key = rows[j].key => i = j

\* C32: a writeToDB(key, v) that overwrote the file leaves exactly one row
\* for key, holding the encoding of v, and every other row of the table
\* before the call with its value, and adds no other row; no table ever has
\* two rows for one key
C32_Upsert ==
    /\ [](UniqueKeys(file))
    /\ [][MutationStep /\ dbCall'.op = "writeToDB" /\ dbCall'.overwrote =>
            /\ SelectSeq2(file', {dbCall'.key})
                   = <<Row(dbCall'.key, Str(Encode(lastWritten'[dbCall'.key])))>>
            /\ SelectSeq2(file', RowKeys(file') \ {dbCall'.key})
                   = SelectSeq2(file, RowKeys(file) \ {dbCall'.key})]_vars

C32_Witness ==
    /\ dbCall.op = "writeToDB"
    /\ dbCall.overwrote
    /\ dbCall.key = TestKey
    /\ lastWritten[TestKey].t = "obj"
    /\ file = <<Row(HostKey, Str("x")), Row(TestKey, Str(Encode(lastWritten[TestKey])))>>


\* C33: switchNext is a round robin. getNextAccount returns (no account, -1)
\* when nothing is saved and otherwise the saved account at an index within
\* [0, n), whatever the stored index was; n commands in a row over n saved
\* accounts select n different accounts; the stored index is that of the
\* account selected last, from the moment its switch starts and whatever the
\* switch then returns.
C33_RoundRobin ==
    LET n == Len(am.memento)
        runs == panel.runs
    IN  /\ am.call.op = "getNextAccount" =>
            IF n = 0
            THEN am.call.returned = NextValue(Undefined, -1)
            ELSE /\ am.call.returned.index \in 0..(n - 1)
                 /\ am.call.returned.account =
                        AccountValue(Restored(am)[am.call.returned.index + 1])
        /\ n = 0 => runs = <<>>
        /\ \A i, j \in 1..Len(runs) :
              (i < j /\ j - i < n) => runs[i].account.id # runs[j].account.id
        /\ \A i \in 1..Len(runs) : \E k \in 1..n : Restored(am)[k] = runs[i].account
        /\ runs # <<>> =>
              /\ am.currentAccountIndex \in 0..(n - 1)
              /\ am.memento[am.currentAccountIndex + 1].id = runs[Len(runs)].account.id

\* three saved accounts and a stale index: three commands, the last switch failed
C33_Witness ==
    /\ Len(am.memento) = 3
    /\ Len(panel.runs) = 3
    /\ panel.runs[1].account.id = "acc-2"
    /\ panel.runs[3].account.id = "acc-1"
    /\ panel.runs[3].pc = "returned"
    /\ ~panel.runs[3].outcome.success
    /\ am.currentAccountIndex = 0


\* C34: resetMachineId fails only when its retries are used up: a call that
\* has thrown made exactly three write attempts and none of them succeeded,
\* whatever storage.json held before the call.
C34_FailsOnlyOnExhaustion ==
    ResetDone /\ reset.threw =>
        /\ Len(reset.writes) = maxRetries
        /\ \A n \in 1..Len(reset.writes) : reset.writes[n] # "ok"


IsWrite(e) == \E n \in 1..Len(AuthKeys), threw \in BOOLEAN : e = WriteEntry(n, threw)

\* the row of the n-th record as block b of this attempt writes it
RecordRow(b, n) ==
    Row(AuthKeys[n], Str(Encode(AuthRecord(n, account, uuidv4(attempts, b, n)))))

WriteLog == SelectSeq(trace, LAMBDA e : IsWrite(e) \/ e = "catch")

C36_ConsistentAtQuiescence ==
    (/\ panel.runs # <<>>
     /\ \A i \in 1..Len(panel.runs) :
            ~InFlight(panel.runs[i]) /\ panel.runs[i].outcome = Success) =>
        /\ \A n \in 1..Len(AuthKeys) : Len(Stored(AuthKeys[n])) = 1
        /\ PropValues(Decode(Stored(AuthKeys[1])[1].value), "apiKey")
               = PropValues(Decode(Stored(AuthKeys[2])[1].value), "codeium.apiKey")
        /\ PropValues(Decode(Stored(AuthKeys[1])[1].value), "name")
               = {Stored(AuthKeys[3])[1].value}

====
